---- MODULE Spec2Model ----
(***************************************************************************)
(* Model of the RDT (cache / bandwidth allocation and monitoring) helpers  *)
(* of docs/hardware-knobs: the per-CPU MSR access layer (msr_utils.c), the *)
(* class-of-service functions, the monitoring-id functions                 *)
(* (rdt_monitor.c) and the benchmark's writers (rdt_bench.c).              *)
(*                                                                         *)
(* A 64-bit register word is a tuple of four 16-bit limbs, least           *)
(* significant first, so that the C code's masks, shifts and casts are     *)
(* computed at full width.  Every msr_read_cpu / msr_write_cpu is one      *)
(* step of the calling thread and may fail.                                *)
(***************************************************************************)
EXTENDS Integers, Sequences, FiniteSets, TLC

(* ------------------------------ bounds --------------------------------- *)
\* number of CPUs reported by get_cpu_count()
NCPU == 3

\* iterations of the switching loop of rdt_test_dynamic_switching (1000 in
\* the source)
SwitchCount == 3

\* seconds the benchmark's monitoring loop runs (main passes 10)
MetricsDuration == 2

\* rows of benchmark_configs[] that main runs (8 in the source)
NumConfigs == 2

\* benchmark threads a configuration starts at most (2 to 8 in the source)
MaxBenchThreads == 2

(* ------------------------- program constants --------------------------- *)
SUCCESS == 0
ERROR_NOT_SUPPORTED == 0 - 2
ERROR_INVALID_PARAM == 0 - 3
ERROR_SYSTEM == 0 - 4
MAX_CLOS == 16
MAX_RMID == 256
MSR_IA32_QM_EVTSEL == 3213
MSR_IA32_QM_CTR == 3214
MSR_IA32_PQR_ASSOC == 3215
MSR_IA32_L3_MASK_0 == 3216
MSR_IA32_MBA_THRTL_MSR == 3408

(* --------------------------- 64-bit words ------------------------------ *)
LIMB == 65536

RECURSIVE BitAnd(_, _, _)
BitAnd(a, b, n) ==
    IF n = 0 THEN 0
    ELSE (IF a % 2 = 1 /\ b % 2 = 1 THEN 1 ELSE 0)
         + 2 * BitAnd(a \div 2, b \div 2, n - 1)

RECURSIVE BitOr(_, _, _)
BitOr(a, b, n) ==
    IF n = 0 THEN 0
    ELSE (IF a % 2 = 1 \/ b % 2 = 1 THEN 1 ELSE 0)
         + 2 * BitOr(a \div 2, b \div 2, n - 1)

\* x & y and x | y on uint64_t
And64(x, y) == [i \in 1..4 |-> BitAnd(x[i], y[i], 16)]
Or64(x, y) == [i \in 1..4 |-> BitOr(x[i], y[i], 16)]

\* (uint64_t)i for an int i: sign extension to 64 bits
U64OfInt(i) ==
    << i % LIMB, (i \div LIMB) % LIMB,
       IF i < 0 THEN LIMB - 1 ELSE 0, IF i < 0 THEN LIMB - 1 ELSE 0 >>

\* (int)x for a uint64_t x: the low 32 bits read as a signed int
IntOfU64(x) ==
    IF x[2] >= LIMB \div 2 THEN (x[2] - LIMB) * LIMB + x[1]
    ELSE x[2] * LIMB + x[1]

\* x << 32 and x >> 32 on uint64_t
Shl32(x) == << 0, 0, x[1], x[2] >>
Shr32(x) == << x[3], x[4], 0, 0 >>

\* the literals 0xFFFFFFFF00000000ULL and 0x00000000FFFFFFFFULL
HIGH_HALF == << 0, 0, 65535, 65535 >>
LOW_HALF == << 65535, 65535, 0, 0 >>
ZERO64 == << 0, 0, 0, 0 >>

\* the two halves of a word, as 32-bit quantities
Lo32(x) == << x[1], x[2] >>
Hi32(x) == << x[3], x[4] >>

\* a < b on uint64_t
Less64(a, b) ==
    \E i \in 1..4 : a[i] < b[i] /\ \A j \in (i + 1)..4 : a[j] = b[j]

\* a - b on uint64_t: the difference modulo 2^64
Sub64(a, b) ==
    LET d1 == a[1] - b[1]
        d2 == a[2] - b[2] - (IF d1 < 0 THEN 1 ELSE 0)
        d3 == a[3] - b[3] - (IF d2 < 0 THEN 1 ELSE 0)
        d4 == a[4] - b[4] - (IF d3 < 0 THEN 1 ELSE 0)
    IN << d1 % LIMB, d2 % LIMB, d3 % LIMB, d4 % LIMB >>

\* x * k on uint64_t for a factor k below 2^15: the product modulo 2^64
Mul64(x, k) ==
    LET p1 == x[1] * k
        p2 == x[2] * k + (p1 \div LIMB)
        p3 == x[3] * k + (p2 \div LIMB)
        p4 == x[4] * k + (p3 \div LIMB)
    IN << p1 % LIMB, p2 % LIMB, p3 % LIMB, p4 % LIMB >>

\* the digits of b \div d, b given as bytes, most significant first
RECURSIVE DivDigits(_, _, _)
DivDigits(b, d, rem) ==
    IF b = << >> THEN << >>
    ELSE LET cur == rem * 256 + Head(b)
         IN << cur \div d >> \o DivDigits(Tail(b), d, cur % d)

\* x / d on uint64_t for a divisor 0 < d < 2^23
Div64(x, d) ==
    LET b == << x[4] \div 256, x[4] % 256, x[3] \div 256, x[3] % 256,
                x[2] \div 256, x[2] % 256, x[1] \div 256, x[1] % 256 >>
        q == DivDigits(b, d, 0)
    IN << q[7] * 256 + q[8], q[5] * 256 + q[6],
          q[3] * 256 + q[4], q[1] * 256 + q[2] >>

(* ------------------------------ inputs --------------------------------- *)
CPUs == 0..(NCPU - 1)
\* the cpu argument callers pass to the per-CPU functions
CpuArgs == {0, 1}
Threads == {1, 2}
\* class ids passed by callers (int): valid ones, the bound and a negative
ClosIdArgs == {0 - 1, 0, 1, 15, 16}
\* monitoring ids passed by callers (int)
RmidArgs == {0, 255, 256}
\* class ids passed to the mask functions
MaskClosArgs == {0, 1, 16}
\* int class ids passed to the mask functions, negative ones included
AddrClosArgs == {0 - 3, 0 - 2, 0 - 1, 0, 16}
\* the bitmask written with them: 0x3FF
AddrMaskArgs == {<< 1023, 0, 0, 0 >>}
\* cache bitmasks passed by callers: 0 and 0x3FF
MaskArgs == {<< 0, 0, 0, 0 >>, << 1023, 0, 0, 0 >>}
\* the two masks of concurrent passes: 0x3FF and 0xF
PassMaskArgs == {<< 1023, 0, 0, 0 >>, << 15, 0, 0, 0 >>}
\* throttle values passed by callers: 0 and 50
ThrottleArgs == {<< 0, 0, 0, 0 >>, << 50, 0, 0, 0 >>}

\* monitoring ids passed to the sampling functions
SampleRmidArgs == {0, 255}
\* the low limbs a monitoring counter is observed with
CtrLevels == {1, 7}
\* duration_seconds passed to rdt_monitor_continuous
DurationArgs == {1}
\* what main of rdt_monitor.c takes as its duration: atoi(argv[1]) or 10
MainDurationArgs == {0, 1}
\* the reading of the clock when a monitor starts, in microseconds, and the
\* time that can pass between two statements
ClockStart == 5000000
ClockSteps == {0, 300000}

Regs ==
    {MSR_IA32_QM_EVTSEL, MSR_IA32_QM_CTR, MSR_IA32_PQR_ASSOC}
    \cup (MSR_IA32_L3_MASK_0 .. (MSR_IA32_L3_MASK_0 + MAX_CLOS - 1))
    \cup (MSR_IA32_MBA_THRTL_MSR .. (MSR_IA32_MBA_THRTL_MSR + MAX_CLOS - 1))

(* ------------------------------- state --------------------------------- *)
VARIABLES
    msr,    \* msr[cpu][address]: the register file behind /dev/cpu/N/msr
    th      \* th[t]: the call thread t is executing or has just finished

vars == << msr, th >>

NoPrev ==
    [op |-> "none", cpu |-> 0, a |-> 0, m |-> ZERO64, ret |-> 0,
     assoc |-> ZERO64]

\* rdt_monitor_data_t, zero-initialised
NoData ==
    [rmid |-> 0, llc_occupancy |-> ZERO64, mbm_total |-> ZERO64,
     mbm_local |-> ZERO64, timestamp |-> 0]

\* no line printed
NoReport ==
    [printed |-> FALSE, prev |-> NoData, curr |-> NoData,
     mbm_total_rate |-> ZERO64, mbm_local_rate |-> ZERO64]

\* the locals of the monitoring loop: the clock as last read, the loop's
\* limits, the flag the signal handler clears, the number of the iteration,
\* the two samples and the line the iteration printed
NoMon ==
    [now |-> 0, start_time |-> 0, end_time |-> 0, running |-> TRUE,
     it |-> 0, prev_data |-> NoData, curr_data |-> NoData,
     report |-> NoReport]

\* the globals of rdt_bench.c: the stop flag and the threads created so far
\* (by configuration and index), with the configurations started and the
\* configurations during whose run a signal was handled
NoBench ==
    [g_running |-> 1, threads |-> << >>, started |-> {}, handled |-> {}]

Idle ==
    [op |-> "none", pc |-> "idle", cpu |-> 0, a |-> 0, m |-> ZERO64,
     thr |-> ZERO64, reg |-> 0, n |-> 0, i |-> 0, value |-> ZERO64,
     ret |-> 0, outi |-> 0, outw |-> ZERO64, mba |-> FALSE, acc |-> {},
     wok |-> {}, pre |-> << >>, prev |-> NoPrev, ev |-> 0, sel |-> ZERO64,
     werr |-> {}, mon |-> NoMon, err |-> "none", bench |-> NoBench]

\* a thread can start a call when it is not inside one
CanCall(t) == th[t].pc = "idle"

\* a read-only call can also follow a finished call directly; its frame then
\* remembers that call (prev)
CanFollow(t) == th[t].pc \in {"idle", "done"}

\* the frame of a call that starts now; pre is the register file it finds
Frame(op, pc, cpu, a) ==
    [Idle EXCEPT !.op = op, !.pc = pc, !.cpu = cpu, !.a = a, !.pre = msr]

\* what a caller remembers of the call it made just before this one
Summary(f) ==
    IF f.pc = "done" /\ f.cpu \in DOMAIN f.pre
    THEN [op |-> f.op, cpu |-> f.cpu, a |-> f.a, m |-> f.m, ret |-> f.ret,
          assoc |-> f.pre[f.cpu][MSR_IA32_PQR_ASSOC]]
    ELSE NoPrev

\* the frame of a call that has returned r
Ret(f, r) == [f EXCEPT !.pc = "done", !.ret = r]

\* the record of one register access attempted by a call
Acc(kind, cpu, reg) == [kind |-> kind, cpu |-> cpu, reg |-> reg]
Accessed(f, kind, cpu, reg) == [f EXCEPT !.acc = @ \cup {Acc(kind, cpu, reg)}]

MaskRegs == MSR_IA32_L3_MASK_0 .. (MSR_IA32_L3_MASK_0 + MAX_CLOS - 1)

\* 0xFFFF, the mask the benchmark treats as "all cache ways"
DefaultMask == << 65535, 0, 0, 0 >>

InitMsr ==
    [c \in CPUs |-> [r \in Regs |->
        IF r \in MaskRegs THEN DefaultMask ELSE ZERO64]]

Init ==
    /\ msr = InitMsr
    /\ th = [t \in Threads |-> Idle]

(* ----------------------- register access layer ------------------------- *)
\* msr_write_cpu(cpu, reg, value) succeeding: the register takes the value
msr_write_cpu(cpu, reg, value) == [msr EXCEPT ![cpu][reg] = value]

\* msr_read_cpu(cpu, reg, &value) succeeding: the value read
msr_read_cpu(cpu, reg) == msr[cpu][reg]

\* one read step of thread t: the call goes on in frame ok_f when the read
\* succeeds and in frame fail_f when it fails
ReadStep(t, cpu, reg, ok_f, fail_f) ==
    /\ \E ok \in BOOLEAN :
        th' = [th EXCEPT ![t] =
                Accessed(IF ok THEN ok_f ELSE fail_f, "r", cpu, reg)]
    /\ UNCHANGED msr

\* one write step of thread t: the register takes the value and the call
\* goes on in frame ok_f, or the write fails and it goes on in fail_f
WriteStep(t, cpu, reg, value, ok_f, fail_f) ==
    \E ok \in BOOLEAN :
        /\ msr' = IF ok THEN msr_write_cpu(cpu, reg, value) ELSE msr
        /\ th' = [th EXCEPT ![t] =
                    Accessed(IF ok THEN ok_f ELSE fail_f, "w", cpu, reg)]

(* -------------------------- association word --------------------------- *)
\* a writer that composes the word from the class id alone
SetClosWord_NoKeep(value, clos_id) == U64OfInt(clos_id)

\* rdt_set_clos: value = (value & 0xFFFFFFFF00000000ULL) | (uint64_t)clos_id
SetClosWord(value, clos_id) == Or64(And64(value, HIGH_HALF), U64OfInt(clos_id))

\* a reader that takes the class id from the upper half
GetClosOfWord_Upper(value) == IntOfU64(Shr32(value))

\* rdt_get_clos: *clos_id = (int)(value & 0xFFFFFFFF)
GetClosOfWord(value) == IntOfU64(And64(value, LOW_HALF))

\* a writer that composes the word from the monitoring id alone
SetRmidWord_NoKeep(value, rmid) == Shl32(U64OfInt(rmid))

\* rdt_monitor_set_rmid:
\* value = (value & 0x00000000FFFFFFFFULL) | ((uint64_t)rmid << 32)
SetRmidWord(value, rmid) == Or64(And64(value, LOW_HALF), Shl32(U64OfInt(rmid)))

\* rdt_monitor_get_rmid: *rmid = (int)(value >> 32)
GetRmidOfWord(value) == IntOfU64(Shr32(value))

\* assign_thread_to_clos:
\* value = (value & 0x00000000FFFFFFFFULL) | ((uint64_t)clos_id << 32)
AssignWord(value, clos_id) == Or64(And64(value, LOW_HALF), Shl32(U64OfInt(clos_id)))

\* rdt_bench_cleanup: value = value & 0x00000000FFFFFFFFULL
CleanupWord(value) == And64(value, LOW_HALF)

\* rdt_set_clos(cpu, clos_id): the parameter check
rdt_set_clos_call(t, cpu, clos_id) ==
    /\ CanCall(t)
    /\ th' = [th EXCEPT ![t] =
                IF clos_id >= MAX_CLOS
                THEN Ret(Frame("rdt_set_clos", "done", cpu, clos_id),
                         ERROR_INVALID_PARAM)
                ELSE Frame("rdt_set_clos", "read", cpu, clos_id)]
    /\ UNCHANGED msr

\* the frame of a call whose read of the association word has failed
ReadFailed(f) ==
    [f EXCEPT !.werr = @ \cup {Acc("r", f.cpu, MSR_IA32_PQR_ASSOC)}]

\* a setter that goes on to its write when the read has failed
rdt_set_clos_read_WriteAnyway(t) ==
    /\ th[t].op = "rdt_set_clos" /\ th[t].pc = "read"
    /\ LET Ok(f, v) == [f EXCEPT !.pc = "write", !.value = v]
           Fail(f) == [ReadFailed(f) EXCEPT !.pc = "write"]
       IN ReadStep(t, th[t].cpu, MSR_IA32_PQR_ASSOC,
                   Ok(th[t], msr_read_cpu(th[t].cpu, MSR_IA32_PQR_ASSOC)),
                   Fail(th[t]))

\* rdt_set_clos: msr_read_cpu(cpu, MSR_IA32_PQR_ASSOC, &value)
rdt_set_clos_read(t) ==
    /\ th[t].op = "rdt_set_clos" /\ th[t].pc = "read"
    /\ LET Ok(f, v) == [f EXCEPT !.pc = "write", !.value = v]
           Fail(f) == Ret(ReadFailed(f), ERROR_SYSTEM)
       IN ReadStep(t, th[t].cpu, MSR_IA32_PQR_ASSOC,
                   Ok(th[t], msr_read_cpu(th[t].cpu, MSR_IA32_PQR_ASSOC)),
                   Fail(th[t]))

\* rdt_set_clos: compose the word and msr_write_cpu it
rdt_set_clos_write(t) ==
    /\ th[t].op = "rdt_set_clos" /\ th[t].pc = "write"
    /\ LET value == SetClosWord(th[t].value, th[t].a)
           Ok(f) == Ret([f EXCEPT !.value = value], SUCCESS)
           Fail(f) == Ret([f EXCEPT !.value = value], ERROR_SYSTEM)
       IN WriteStep(t, th[t].cpu, MSR_IA32_PQR_ASSOC, value,
                    Ok(th[t]), Fail(th[t]))

\* rdt_get_clos(cpu, &clos_id), called with a non-NULL clos_id
rdt_get_clos_call(t, cpu) ==
    /\ CanFollow(t)
    /\ th' = [th EXCEPT ![t] =
                [Frame("rdt_get_clos", "read", cpu, 0)
                    EXCEPT !.prev = Summary(th[t])]]
    /\ UNCHANGED msr

\* rdt_get_clos: read the word and extract the class id
rdt_get_clos_read(t) ==
    /\ th[t].op = "rdt_get_clos" /\ th[t].pc = "read"
    /\ LET Ok(f, v) == Ret([f EXCEPT !.value = v,
                                     !.outi = GetClosOfWord(v)], SUCCESS)
           Fail(f) == Ret(f, ERROR_SYSTEM)
       IN ReadStep(t, th[t].cpu, MSR_IA32_PQR_ASSOC,
                   Ok(th[t], msr_read_cpu(th[t].cpu, MSR_IA32_PQR_ASSOC)),
                   Fail(th[t]))

\* rdt_monitor_set_rmid(cpu, rmid): the parameter check
rdt_monitor_set_rmid_call(t, cpu, rmid) ==
    /\ CanCall(t)
    /\ th' = [th EXCEPT ![t] =
                IF rmid >= MAX_RMID
                THEN Ret(Frame("rdt_monitor_set_rmid", "done", cpu, rmid),
                         ERROR_INVALID_PARAM)
                ELSE Frame("rdt_monitor_set_rmid", "read", cpu, rmid)]
    /\ UNCHANGED msr

\* rdt_monitor_set_rmid: msr_read_cpu(cpu, MSR_IA32_PQR_ASSOC, &value)
rdt_monitor_set_rmid_read(t) ==
    /\ th[t].op = "rdt_monitor_set_rmid" /\ th[t].pc = "read"
    /\ LET Ok(f, v) == [f EXCEPT !.pc = "write", !.value = v]
           Fail(f) == Ret(ReadFailed(f), ERROR_SYSTEM)
       IN ReadStep(t, th[t].cpu, MSR_IA32_PQR_ASSOC,
                   Ok(th[t], msr_read_cpu(th[t].cpu, MSR_IA32_PQR_ASSOC)),
                   Fail(th[t]))

\* rdt_monitor_set_rmid: compose the word and msr_write_cpu it
rdt_monitor_set_rmid_write(t) ==
    /\ th[t].op = "rdt_monitor_set_rmid" /\ th[t].pc = "write"
    /\ LET value == SetRmidWord(th[t].value, th[t].a)
           Ok(f) == Ret([f EXCEPT !.value = value], SUCCESS)
           Fail(f) == Ret([f EXCEPT !.value = value], ERROR_SYSTEM)
       IN WriteStep(t, th[t].cpu, MSR_IA32_PQR_ASSOC, value,
                    Ok(th[t]), Fail(th[t]))

\* rdt_monitor_get_rmid(cpu, &rmid), called with a non-NULL rmid
rdt_monitor_get_rmid_call(t, cpu) ==
    /\ CanFollow(t)
    /\ th' = [th EXCEPT ![t] =
                [Frame("rdt_monitor_get_rmid", "read", cpu, 0)
                    EXCEPT !.prev = Summary(th[t])]]
    /\ UNCHANGED msr

\* rdt_monitor_get_rmid: read the word and extract the monitoring id
rdt_monitor_get_rmid_read(t) ==
    /\ th[t].op = "rdt_monitor_get_rmid" /\ th[t].pc = "read"
    /\ LET Ok(f, v) == Ret([f EXCEPT !.value = v,
                                     !.outi = GetRmidOfWord(v)], SUCCESS)
           Fail(f) == Ret(f, ERROR_SYSTEM)
       IN ReadStep(t, th[t].cpu, MSR_IA32_PQR_ASSOC,
                   Ok(th[t], msr_read_cpu(th[t].cpu, MSR_IA32_PQR_ASSOC)),
                   Fail(th[t]))

\* assign_thread_to_clos(clos_id): cpu is what sched_getcpu() returned
assign_thread_to_clos_call(t, cpu, clos_id) ==
    /\ CanCall(t)
    /\ th' = [th EXCEPT ![t] =
                IF cpu < 0
                THEN Ret(Frame("assign_thread_to_clos", "done", cpu, clos_id),
                         ERROR_SYSTEM)
                ELSE Frame("assign_thread_to_clos", "read", cpu, clos_id)]
    /\ UNCHANGED msr

\* assign_thread_to_clos: msr_read_cpu(cpu, MSR_IA32_PQR_ASSOC, &value)
assign_thread_to_clos_read(t) ==
    /\ th[t].op = "assign_thread_to_clos" /\ th[t].pc = "read"
    /\ LET Ok(f, v) == [f EXCEPT !.pc = "write", !.value = v]
           Fail(f) == Ret(f, ERROR_SYSTEM)
       IN ReadStep(t, th[t].cpu, MSR_IA32_PQR_ASSOC,
                   Ok(th[t], msr_read_cpu(th[t].cpu, MSR_IA32_PQR_ASSOC)),
                   Fail(th[t]))

\* assign_thread_to_clos: compose the word and msr_write_cpu it
assign_thread_to_clos_write(t) ==
    /\ th[t].op = "assign_thread_to_clos" /\ th[t].pc = "write"
    /\ LET value == AssignWord(th[t].value, th[t].a)
           Ok(f) == Ret([f EXCEPT !.value = value], SUCCESS)
           Fail(f) == Ret([f EXCEPT !.value = value], ERROR_SYSTEM)
       IN WriteStep(t, th[t].cpu, MSR_IA32_PQR_ASSOC, value,
                    Ok(th[t]), Fail(th[t]))

(* ------------------------- rdt_bench_cleanup --------------------------- *)
\* the loop heads of rdt_bench_cleanup: where the function goes on after
\* the body for cpu (first loop) or clos (second loop) number i
CleanupNextCpu(f, i) ==
    IF i < NCPU THEN [f EXCEPT !.pc = "read", !.i = i, !.cpu = i]
    ELSE [f EXCEPT !.pc = "mask", !.i = 0, !.cpu = 0]

CleanupNextClos(f, i) ==
    IF i < 16 THEN [f EXCEPT !.pc = "mask", !.i = i] ELSE Ret(f, SUCCESS)

\* rdt_bench_cleanup(); feat is whether check_cpu_feature("mba") succeeds
rdt_bench_cleanup_call(t, feat) ==
    /\ CanCall(t)
    /\ th' = [th EXCEPT ![t] =
                CleanupNextCpu([Frame("rdt_bench_cleanup", "read", 0, 0)
                                    EXCEPT !.mba = feat], 0)]
    /\ UNCHANGED msr

\* first loop: msr_read_cpu(cpu, MSR_IA32_PQR_ASSOC, &value)
rdt_bench_cleanup_read(t) ==
    /\ th[t].op = "rdt_bench_cleanup" /\ th[t].pc = "read"
    /\ LET Ok(f, v) == [f EXCEPT !.pc = "write", !.value = v]
           Fail(f) == CleanupNextCpu(f, f.i + 1)
       IN ReadStep(t, th[t].i, MSR_IA32_PQR_ASSOC,
                   Ok(th[t], msr_read_cpu(th[t].i, MSR_IA32_PQR_ASSOC)),
                   Fail(th[t]))

\* first loop: clear the upper half and write the word back, result ignored
rdt_bench_cleanup_write(t) ==
    /\ th[t].op = "rdt_bench_cleanup" /\ th[t].pc = "write"
    /\ LET value == CleanupWord(th[t].value)
           Ok(f) == CleanupNextCpu([f EXCEPT !.value = value,
                                            !.wok = @ \cup {f.i}], f.i + 1)
           Fail(f) == CleanupNextCpu([f EXCEPT !.value = value], f.i + 1)
       IN WriteStep(t, th[t].i, MSR_IA32_PQR_ASSOC, value,
                    Ok(th[t]), Fail(th[t]))

\* second loop: msr_write_cpu(0, MSR_IA32_L3_MASK_0 + clos, 0xFFFF)
rdt_bench_cleanup_mask(t) ==
    /\ th[t].op = "rdt_bench_cleanup" /\ th[t].pc = "mask"
    /\ LET Go(f) == IF f.mba THEN [f EXCEPT !.pc = "throttle"]
                    ELSE CleanupNextClos(f, f.i + 1)
       IN WriteStep(t, 0, MSR_IA32_L3_MASK_0 + th[t].i, DefaultMask,
                    Go(th[t]), Go(th[t]))

\* second loop: msr_write_cpu(0, MSR_IA32_MBA_THRTL_MSR + clos, 0)
rdt_bench_cleanup_throttle(t) ==
    /\ th[t].op = "rdt_bench_cleanup" /\ th[t].pc = "throttle"
    /\ LET Go(f) == CleanupNextClos(f, f.i + 1)
       IN WriteStep(t, 0, MSR_IA32_MBA_THRTL_MSR + th[t].i, ZERO64,
                    Go(th[t]), Go(th[t]))

(* --------------------------- mask registers ---------------------------- *)
\* a reader that always addresses the mask of class 0
rdt_read_l3_mask_msr_Class0(clos_id) == MSR_IA32_L3_MASK_0

\* rdt_read_l3_mask: uint32_t msr = MSR_IA32_L3_MASK_0 + clos_id
rdt_read_l3_mask_msr(clos_id) == MSR_IA32_L3_MASK_0 + clos_id

\* a writer that addresses the mask of the next class
rdt_write_l3_mask_msr_Next(clos_id) == MSR_IA32_L3_MASK_0 + clos_id + 1

\* rdt_write_l3_mask: uint32_t msr = MSR_IA32_L3_MASK_0 + clos_id
rdt_write_l3_mask_msr(clos_id) == MSR_IA32_L3_MASK_0 + clos_id

\* the loop head of the batch writers: the body for cpu i, or the return
\* of result r when all n CPUs are written
BatchNext(f, i, r) ==
    IF i < f.n THEN [f EXCEPT !.pc = "write", !.i = i] ELSE Ret([f EXCEPT !.i = i], r)

\* rdt_read_l3_mask(clos_id, &mask), called with a non-NULL mask
rdt_read_l3_mask_call(t, clos_id) ==
    /\ CanFollow(t)
    /\ th' = [th EXCEPT ![t] =
                LET f == [Frame("rdt_read_l3_mask", "read", 0, clos_id)
                            EXCEPT !.prev = Summary(th[t])]
                IN IF clos_id >= MAX_CLOS THEN Ret(f, ERROR_INVALID_PARAM)
                   ELSE [f EXCEPT !.reg = rdt_read_l3_mask_msr(clos_id)]]
    /\ UNCHANGED msr

\* rdt_read_l3_mask: return msr_read_cpu(0, msr, mask)
rdt_read_l3_mask_read(t) ==
    /\ th[t].op = "rdt_read_l3_mask" /\ th[t].pc = "read"
    /\ LET Ok(f, v) == Ret([f EXCEPT !.outw = v], SUCCESS)
           Fail(f) == Ret(f, ERROR_SYSTEM)
       IN ReadStep(t, 0, th[t].reg,
                   Ok(th[t], msr_read_cpu(0, th[t].reg)), Fail(th[t]))

\* rdt_write_l3_mask(clos_id, mask): the parameter check and the loop head
rdt_write_l3_mask_call(t, clos_id, mask) ==
    /\ CanCall(t)
    /\ th' = [th EXCEPT ![t] =
                LET f == [Frame("rdt_write_l3_mask", "write", 0, clos_id)
                            EXCEPT !.m = mask, !.n = NCPU]
                IN IF clos_id >= MAX_CLOS THEN Ret(f, ERROR_INVALID_PARAM)
                   ELSE BatchNext([f EXCEPT
                            !.reg = rdt_write_l3_mask_msr(clos_id)], 0, SUCCESS)]
    /\ UNCHANGED msr

\* a loop body that logs a failed write and goes on with the next CPU
rdt_write_l3_mask_write_GoOn(t) ==
    /\ th[t].op = "rdt_write_l3_mask" /\ th[t].pc = "write"
    /\ LET Ok(f) == BatchNext([f EXCEPT !.wok = @ \cup {f.i}], f.i + 1, SUCCESS)
           Fail(f) == BatchNext(f, f.i + 1, ERROR_SYSTEM)
       IN WriteStep(t, th[t].i, th[t].reg, th[t].m,
                    Ok(th[t]), Fail(th[t]))

\* rdt_write_l3_mask: the loop body, msr_write_cpu(cpu, msr, mask)
rdt_write_l3_mask_write(t) ==
    /\ th[t].op = "rdt_write_l3_mask" /\ th[t].pc = "write"
    /\ LET Ok(f) == BatchNext([f EXCEPT !.wok = @ \cup {f.i}], f.i + 1, SUCCESS)
           Fail(f) == Ret(f, ERROR_SYSTEM)
       IN WriteStep(t, th[t].i, th[t].reg, th[t].m,
                    Ok(th[t]), Fail(th[t]))

\* msr_write_all_cpus(msr, value, max_cpus): cpu_count and the loop head
msr_write_all_cpus_call(t, reg, value, max_cpus) ==
    /\ CanCall(t)
    /\ th' = [th EXCEPT ![t] =
                LET cpu_count == IF NCPU > max_cpus THEN max_cpus ELSE NCPU
                    f == [Frame("msr_write_all_cpus", "write", 0, max_cpus)
                            EXCEPT !.m = value, !.reg = reg, !.n = cpu_count]
                IN BatchNext(f, 0, cpu_count)]
    /\ UNCHANGED msr

\* a loop body that tries a failed write again
msr_write_all_cpus_write_Retry(t) ==
    /\ th[t].op = "msr_write_all_cpus" /\ th[t].pc = "write"
    /\ LET Ok(f) == BatchNext([f EXCEPT !.wok = @ \cup {f.i}], f.i + 1, f.n)
           Fail(f) == f
       IN WriteStep(t, th[t].i, th[t].reg, th[t].m,
                    Ok(th[t]), Fail(th[t]))

\* msr_write_all_cpus: the loop body, msr_write_cpu(i, msr, value)
msr_write_all_cpus_write(t) ==
    /\ th[t].op = "msr_write_all_cpus" /\ th[t].pc = "write"
    /\ LET Ok(f) == BatchNext([f EXCEPT !.wok = @ \cup {f.i}], f.i + 1, f.n)
           Fail(f) == Ret(f, ERROR_SYSTEM)
       IN WriteStep(t, th[t].i, th[t].reg, th[t].m,
                    Ok(th[t]), Fail(th[t]))

\* setup_rdt_clos(clos_id, l3_mask, mb_throttle); feat is whether
\* check_cpu_feature("mba") succeeds
setup_rdt_clos_call(t, clos_id, l3_mask, mb_throttle, feat) ==
    /\ CanCall(t)
    /\ th' = [th EXCEPT ![t] =
                [Frame("setup_rdt_clos", "mask", 0, clos_id)
                    EXCEPT !.m = l3_mask, !.thr = mb_throttle, !.mba = feat]]
    /\ UNCHANGED msr

\* setup_rdt_clos: msr_write_cpu(0, MSR_IA32_L3_MASK_0 + clos_id, l3_mask)
setup_rdt_clos_mask(t) ==
    /\ th[t].op = "setup_rdt_clos" /\ th[t].pc = "mask"
    /\ LET Ok(f) == IF f.mba /\ f.thr # ZERO64
                    THEN [f EXCEPT !.pc = "throttle", !.wok = @ \cup {0}]
                    ELSE Ret([f EXCEPT !.wok = @ \cup {0}], SUCCESS)
           Fail(f) == Ret([f EXCEPT !.werr = @ \cup
                            {Acc("w", 0, MSR_IA32_L3_MASK_0 + f.a)}],
                          ERROR_SYSTEM)
       IN WriteStep(t, 0, MSR_IA32_L3_MASK_0 + th[t].a, th[t].m,
                    Ok(th[t]), Fail(th[t]))

\* setup_rdt_clos: msr_write_cpu(0, MSR_IA32_MBA_THRTL_MSR + clos_id,
\* mb_throttle), whose failure is only logged; werr keeps the failed writes
setup_rdt_clos_throttle(t) ==
    /\ th[t].op = "setup_rdt_clos" /\ th[t].pc = "throttle"
    /\ LET Ok(f) == Ret(f, SUCCESS)
           Fail(f) == Ret([f EXCEPT !.werr = @ \cup
                            {Acc("w", 0, MSR_IA32_MBA_THRTL_MSR + f.a)}],
                          SUCCESS)
       IN WriteStep(t, 0, MSR_IA32_MBA_THRTL_MSR + th[t].a, th[t].thr,
                    Ok(th[t]), Fail(th[t]))

(* ----------------------------- monitoring ------------------------------ *)
MONITORING_INTERVAL_MS == 100

\* uint64_t evtsel = rmid | (eventULL << 32)
EvtSel(rmid, event) == Or64(U64OfInt(rmid), << 0, 0, event, 0 >>)

\* the values IA32_QM_CTR can show while the word sel is selected in
\* IA32_QM_EVTSEL: the counter of that selection, which is the counter of no
\* other selection, at a low or a high level or with bit 58 set
qm_ctr(sel) ==
    {<< lvl, sel[3], sel[1], 0 >> : lvl \in CtrLevels}
    \cup {<< 1, sel[3], sel[1], 1024 >>}

\* a conversion that hands out the raw counter
ScaleOccupancy_Raw(v) == v

\* rdt_monitor_read_llc_occupancy: *occupancy *= 64
ScaleOccupancy(v) == Mul64(v, 64)

\* what a sampling function stores through its out pointer for event ev
SampleValue(ev, v) == IF ev = 1 THEN ScaleOccupancy(v) ELSE v

SampleOps ==
    {"rdt_monitor_read_llc_occupancy", "rdt_monitor_read_mbm_total",
     "rdt_monitor_read_mbm_local"}

\* the frame of a sampling function called with a non-NULL out pointer
SampleFrame(op, ev, rmid) ==
    [Frame(op, "select", 0, rmid) EXCEPT !.ev = ev, !.sel = EvtSel(rmid, ev)]

\* rdt_monitor_read_llc_occupancy(rmid, &occupancy): event id 1
rdt_monitor_read_llc_occupancy_call(t, rmid) ==
    /\ CanCall(t)
    /\ th' = [th EXCEPT ![t] =
                SampleFrame("rdt_monitor_read_llc_occupancy", 1, rmid)]
    /\ UNCHANGED msr

\* rdt_monitor_read_mbm_total(rmid, &bandwidth): event id 2
rdt_monitor_read_mbm_total_call(t, rmid) ==
    /\ CanCall(t)
    /\ th' = [th EXCEPT ![t] =
                SampleFrame("rdt_monitor_read_mbm_total", 2, rmid)]
    /\ UNCHANGED msr

\* rdt_monitor_read_mbm_local(rmid, &bandwidth): event id 3
rdt_monitor_read_mbm_local_call(t, rmid) ==
    /\ CanCall(t)
    /\ th' = [th EXCEPT ![t] =
                SampleFrame("rdt_monitor_read_mbm_local", 3, rmid)]
    /\ UNCHANGED msr

\* a sampling function that reads the counter whatever the select write did
rdt_monitor_read_select_ReadAnyway(t) ==
    /\ th[t].op \in SampleOps /\ th[t].pc = "select"
    /\ LET Ok(f) == [f EXCEPT !.pc = "counter", !.wok = @ \cup {0}]
           Fail(f) == [f EXCEPT !.pc = "counter"]
       IN WriteStep(t, 0, MSR_IA32_QM_EVTSEL, th[t].sel,
                    Ok(th[t]), Fail(th[t]))

\* a sampling function: msr_write_cpu(0, MSR_IA32_QM_EVTSEL, evtsel); wok
\* keeps that the write went through
rdt_monitor_read_select(t) ==
    /\ th[t].op \in SampleOps /\ th[t].pc = "select"
    /\ LET Ok(f) == [f EXCEPT !.pc = "counter", !.wok = @ \cup {0}]
           Fail(f) == Ret(f, ERROR_SYSTEM)
       IN WriteStep(t, 0, MSR_IA32_QM_EVTSEL, th[t].sel,
                    Ok(th[t]), Fail(th[t]))

\* a sampling function: msr_read_cpu(0, MSR_IA32_QM_CTR, out), the scaling
\* and the return
rdt_monitor_read_counter(t) ==
    /\ th[t].op \in SampleOps /\ th[t].pc = "counter"
    /\ \E v \in qm_ctr(msr[0][MSR_IA32_QM_EVTSEL]) :
        LET Ok(f) == Ret([f EXCEPT !.value = v,
                                   !.outw = SampleValue(f.ev, v)], SUCCESS)
            Fail(f) == Ret(f, ERROR_SYSTEM)
        IN ReadStep(t, 0, MSR_IA32_QM_CTR, Ok(th[t]), Fail(th[t]))

\* the rate of rdt_monitor_continuous: (curr - prev) * 1000000 / time_diff
MbmRate(curr, prev, time_diff) ==
    Div64(Mul64(Mul64(Sub64(curr, prev), 1000), 1000), time_diff)

\* the sample with the value of event ev stored
StoreSample(d, ev, v) ==
    IF ev = 1 THEN [d EXCEPT !.llc_occupancy = SampleValue(1, v)]
    ELSE IF ev = 2 THEN [d EXCEPT !.mbm_total = SampleValue(2, v)]
    ELSE [d EXCEPT !.mbm_local = SampleValue(3, v)]

\* rdt_monitor_continuous(duration_seconds): the locals before the loop
rdt_monitor_continuous_call(t, duration_seconds) ==
    /\ CanCall(t)
    /\ th' = [th EXCEPT ![t] =
                [Frame("rdt_monitor_continuous", "head", 0, duration_seconds)
                    EXCEPT !.mon = [NoMon EXCEPT
                        !.now = ClockStart,
                        !.start_time = ClockStart,
                        !.end_time = ClockStart + duration_seconds * 1000000]]]
    /\ UNCHANGED msr

\* the loop condition, running && get_timestamp_us() < end_time, and the
\* first statements of the body (timestamp and rmid of the current sample)
rdt_monitor_continuous_head(t) ==
    /\ th[t].op = "rdt_monitor_continuous" /\ th[t].pc = "head"
    /\ \E s1 \in ClockSteps, s2 \in ClockSteps :
        LET f == th[t]
            c1 == f.mon.now + s1
            c2 == c1 + s2
        IN th' = [th EXCEPT ![t] =
                    IF ~f.mon.running \/ c1 >= f.mon.end_time
                    THEN Ret([f EXCEPT !.mon.now = c1], 0)
                    ELSE [f EXCEPT !.pc = "select", !.ev = 1,
                                   !.sel = EvtSel(0, 1),
                                   !.mon.now = c2,
                                   !.mon.it = @ + 1,
                                   !.mon.curr_data.timestamp = c2,
                                   !.mon.curr_data.rmid = 0]]
    /\ UNCHANGED msr

\* the select write of the sampling function the body calls; a failure
\* leaves the loop
rdt_monitor_continuous_select(t) ==
    /\ th[t].op = "rdt_monitor_continuous" /\ th[t].pc = "select"
    /\ LET Ok(f) == [f EXCEPT !.pc = "counter"]
           Fail(f) == Ret(f, 0)
       IN WriteStep(t, 0, MSR_IA32_QM_EVTSEL, th[t].sel,
                    Ok(th[t]), Fail(th[t]))

\* the counter read of the sampling function the body calls, then the next
\* sampling function or the rate computation; a failure leaves the loop
rdt_monitor_continuous_counter(t) ==
    /\ th[t].op = "rdt_monitor_continuous" /\ th[t].pc = "counter"
    /\ \E v \in qm_ctr(msr[0][MSR_IA32_QM_EVTSEL]) :
        LET Stored(f) ==
                [f EXCEPT !.mon.curr_data = StoreSample(@, f.ev, v)]
            Ok(f) ==
                IF f.ev < 3
                THEN [Stored(f) EXCEPT !.pc = "select", !.ev = f.ev + 1,
                        !.sel = EvtSel(f.mon.curr_data.rmid, f.ev + 1)]
                ELSE [Stored(f) EXCEPT !.pc = "rate"]
            Fail(f) == Ret(f, 0)
        IN ReadStep(t, 0, MSR_IA32_QM_CTR, Ok(th[t]), Fail(th[t]))

\* a body that computes the rate in every iteration
rdt_monitor_continuous_rate_Always(t) ==
    /\ th[t].op = "rdt_monitor_continuous" /\ th[t].pc = "rate"
    /\ LET f == th[t]
           prev == f.mon.prev_data
           curr == f.mon.curr_data
           time_diff == curr.timestamp - prev.timestamp
           line == [printed |-> TRUE, prev |-> prev, curr |-> curr,
                    mbm_total_rate |->
                        MbmRate(curr.mbm_total, prev.mbm_total, time_diff),
                    mbm_local_rate |->
                        MbmRate(curr.mbm_local, prev.mbm_local, time_diff)]
       IN th' = [th EXCEPT ![t] =
                    [f EXCEPT !.pc = "sleep",
                              !.mon.report = IF time_diff > 0
                                             THEN line ELSE NoReport,
                              !.mon.prev_data = curr]]
    /\ UNCHANGED msr

\* the body after the three samples: the rates and the printed line when
\* prev_data.timestamp > 0 and time_diff > 0, then prev_data = curr_data
rdt_monitor_continuous_rate(t) ==
    /\ th[t].op = "rdt_monitor_continuous" /\ th[t].pc = "rate"
    /\ LET f == th[t]
           prev == f.mon.prev_data
           curr == f.mon.curr_data
           time_diff == curr.timestamp - prev.timestamp
           line == [printed |-> TRUE, prev |-> prev, curr |-> curr,
                    mbm_total_rate |->
                        MbmRate(curr.mbm_total, prev.mbm_total, time_diff),
                    mbm_local_rate |->
                        MbmRate(curr.mbm_local, prev.mbm_local, time_diff)]
       IN th' = [th EXCEPT ![t] =
                    [f EXCEPT !.pc = "sleep",
                              !.mon.report =
                                  IF prev.timestamp > 0 /\ time_diff > 0
                                  THEN line ELSE NoReport,
                              !.mon.prev_data = curr]]
    /\ UNCHANGED msr

\* sleep_ms(MONITORING_INTERVAL_MS) at the end of the body; the line of the
\* iteration is on the terminal and the next iteration starts without one
rdt_monitor_continuous_sleep(t) ==
    /\ th[t].op = "rdt_monitor_continuous" /\ th[t].pc = "sleep"
    /\ th' = [th EXCEPT ![t] =
                [@ EXCEPT !.pc = "head",
                          !.mon.now = @ + MONITORING_INTERVAL_MS * 1000,
                          !.mon.report = NoReport]]
    /\ UNCHANGED msr

\* signal_handler of rdt_monitor.c, delivered while the loop runs: running = 0
signal_handler(t) ==
    /\ th[t].op = "rdt_monitor_continuous" /\ th[t].pc # "done"
    /\ th[t].mon.running
    /\ th' = [th EXCEPT ![t].mon.running = FALSE]
    /\ UNCHANGED msr

(* --------------------- rdt_test_dynamic_switching ---------------------- *)
\* the class id the switching loop requests in iteration i: (i % 2) ? 1 : 0
SwitchClos(i) == IF i % 2 # 0 THEN 1 ELSE 0

\* where the function goes on after iteration i - 1 of the switching loop:
\* the rdt_set_clos of iteration i, or the restore of the original class
\* (rdt_set_clos returns at once for a class id it rejects)
SwitchNext(f, i) ==
    IF i < SwitchCount THEN [f EXCEPT !.pc = "loop_read", !.i = i]
    ELSE IF f.outi >= MAX_CLOS THEN Ret([f EXCEPT !.i = i], SUCCESS)
    ELSE [f EXCEPT !.pc = "restore_read", !.i = i]

\* rdt_test_dynamic_switching()
rdt_test_dynamic_switching_call(t) ==
    /\ CanCall(t)
    /\ th' = [th EXCEPT ![t] =
                Frame("rdt_test_dynamic_switching", "get_original", 0, 1)]
    /\ UNCHANGED msr

\* rdt_get_clos(0, &original_clos)
rdt_test_dynamic_switching_get_original(t) ==
    /\ th[t].op = "rdt_test_dynamic_switching" /\ th[t].pc = "get_original"
    /\ LET Ok(f, v) == [f EXCEPT !.pc = "set_read", !.outi = GetClosOfWord(v)]
           Fail(f) == Ret(f, ERROR_SYSTEM)
       IN ReadStep(t, 0, MSR_IA32_PQR_ASSOC,
                   Ok(th[t], msr_read_cpu(0, MSR_IA32_PQR_ASSOC)),
                   Fail(th[t]))

\* rdt_set_clos(0, test_clos): the read
rdt_test_dynamic_switching_set_read(t) ==
    /\ th[t].op = "rdt_test_dynamic_switching" /\ th[t].pc = "set_read"
    /\ LET Ok(f, v) == [f EXCEPT !.pc = "set_write", !.value = v]
           Fail(f) == Ret(f, ERROR_SYSTEM)
       IN ReadStep(t, 0, MSR_IA32_PQR_ASSOC,
                   Ok(th[t], msr_read_cpu(0, MSR_IA32_PQR_ASSOC)),
                   Fail(th[t]))

\* rdt_set_clos(0, test_clos): the write
rdt_test_dynamic_switching_set_write(t) ==
    /\ th[t].op = "rdt_test_dynamic_switching" /\ th[t].pc = "set_write"
    /\ LET Ok(f) == [f EXCEPT !.pc = "verify"]
           Fail(f) == Ret(f, ERROR_SYSTEM)
       IN WriteStep(t, 0, MSR_IA32_PQR_ASSOC,
                    SetClosWord(th[t].value, th[t].a), Ok(th[t]), Fail(th[t]))

\* rdt_get_clos(0, &current_clos) and the comparison with test_clos
rdt_test_dynamic_switching_verify(t) ==
    /\ th[t].op = "rdt_test_dynamic_switching" /\ th[t].pc = "verify"
    /\ LET Ok(f, v) == IF GetClosOfWord(v) # f.a THEN Ret(f, ERROR_SYSTEM)
                       ELSE SwitchNext(f, 0)
           Fail(f) == Ret(f, ERROR_SYSTEM)
       IN ReadStep(t, 0, MSR_IA32_PQR_ASSOC,
                   Ok(th[t], msr_read_cpu(0, MSR_IA32_PQR_ASSOC)),
                   Fail(th[t]))

\* the loop body, rdt_set_clos(0, (i % 2) ? 1 : 0), result ignored: the read
rdt_test_dynamic_switching_loop_read(t) ==
    /\ th[t].op = "rdt_test_dynamic_switching" /\ th[t].pc = "loop_read"
    /\ LET Ok(f, v) == [f EXCEPT !.pc = "loop_write", !.value = v]
           Fail(f) == SwitchNext(f, f.i + 1)
       IN ReadStep(t, 0, MSR_IA32_PQR_ASSOC,
                   Ok(th[t], msr_read_cpu(0, MSR_IA32_PQR_ASSOC)),
                   Fail(th[t]))

\* the loop body: the write; wok collects the iterations whose write the
\* register took
rdt_test_dynamic_switching_loop_write(t) ==
    /\ th[t].op = "rdt_test_dynamic_switching" /\ th[t].pc = "loop_write"
    /\ LET Ok(f) == SwitchNext([f EXCEPT !.wok = @ \cup {f.i}], f.i + 1)
           Fail(f) == SwitchNext(f, f.i + 1)
       IN WriteStep(t, 0, MSR_IA32_PQR_ASSOC,
                    SetClosWord(th[t].value, SwitchClos(th[t].i)),
                    Ok(th[t]), Fail(th[t]))

\* rdt_set_clos(0, original_clos), result ignored: the read
rdt_test_dynamic_switching_restore_read(t) ==
    /\ th[t].op = "rdt_test_dynamic_switching" /\ th[t].pc = "restore_read"
    /\ LET Ok(f, v) == [f EXCEPT !.pc = "restore_write", !.value = v]
           Fail(f) == Ret(f, SUCCESS)
       IN ReadStep(t, 0, MSR_IA32_PQR_ASSOC,
                   Ok(th[t], msr_read_cpu(0, MSR_IA32_PQR_ASSOC)),
                   Fail(th[t]))

\* rdt_set_clos(0, original_clos): the write, and return SUCCESS
rdt_test_dynamic_switching_restore_write(t) ==
    /\ th[t].op = "rdt_test_dynamic_switching" /\ th[t].pc = "restore_write"
    /\ LET Go(f) == Ret(f, SUCCESS)
       IN WriteStep(t, 0, MSR_IA32_PQR_ASSOC,
                    SetClosWord(th[t].value, th[t].outi),
                    Go(th[t]), Go(th[t]))

(* ------------------ rdt_monitor_init / rdt_monitor_cleanup ------------- *)
\* the loop head of rdt_monitor_init and rdt_monitor_cleanup: the
\* rdt_monitor_set_rmid(cpu, 0) of CPU i, or return SUCCESS after the last
MonNextCpu(f, i) ==
    IF i < NCPU THEN [f EXCEPT !.pc = "read", !.i = i, !.cpu = i]
    ELSE Ret([f EXCEPT !.i = i], SUCCESS)

\* rdt_monitor_init(); feat is whether check_cpu_feature("rdt_m") succeeds,
\* avail whether msr_check_available() does
rdt_monitor_init_call(t, feat, avail) ==
    /\ CanCall(t)
    /\ th' = [th EXCEPT ![t] =
                LET f == Frame("rdt_monitor_init", "read", 0, 0)
                IN IF ~feat \/ ~avail THEN Ret(f, ERROR_NOT_SUPPORTED)
                   ELSE MonNextCpu(f, 0)]
    /\ UNCHANGED msr

\* rdt_monitor_init: the read of rdt_monitor_set_rmid(cpu, 0)
rdt_monitor_init_read(t) ==
    /\ th[t].op = "rdt_monitor_init" /\ th[t].pc = "read"
    /\ LET Ok(f, v) == [f EXCEPT !.pc = "write", !.value = v]
           Fail(f) == Ret(f, ERROR_SYSTEM)
       IN ReadStep(t, th[t].cpu, MSR_IA32_PQR_ASSOC,
                   Ok(th[t], msr_read_cpu(th[t].cpu, MSR_IA32_PQR_ASSOC)),
                   Fail(th[t]))

\* a loop body that logs a failed rdt_monitor_set_rmid and goes on
rdt_monitor_init_write_GoOn(t) ==
    /\ th[t].op = "rdt_monitor_init" /\ th[t].pc = "write"
    /\ LET Ok(f) == MonNextCpu([f EXCEPT !.wok = @ \cup {f.cpu}], f.i + 1)
           Fail(f) == MonNextCpu(f, f.i + 1)
       IN WriteStep(t, th[t].cpu, MSR_IA32_PQR_ASSOC,
                    SetRmidWord(th[t].value, 0), Ok(th[t]), Fail(th[t]))

\* rdt_monitor_init: the write of rdt_monitor_set_rmid(cpu, 0); a failure
\* returns ERROR_SYSTEM
rdt_monitor_init_write(t) ==
    /\ th[t].op = "rdt_monitor_init" /\ th[t].pc = "write"
    /\ LET Ok(f) == MonNextCpu([f EXCEPT !.wok = @ \cup {f.cpu}], f.i + 1)
           Fail(f) == Ret(f, ERROR_SYSTEM)
       IN WriteStep(t, th[t].cpu, MSR_IA32_PQR_ASSOC,
                    SetRmidWord(th[t].value, 0), Ok(th[t]), Fail(th[t]))

\* rdt_monitor_cleanup()
rdt_monitor_cleanup_call(t) ==
    /\ CanCall(t)
    /\ th' = [th EXCEPT ![t] =
                MonNextCpu(Frame("rdt_monitor_cleanup", "read", 0, 0), 0)]
    /\ UNCHANGED msr

\* rdt_monitor_cleanup: the read of rdt_monitor_set_rmid(cpu, 0), whose
\* result is ignored
rdt_monitor_cleanup_read(t) ==
    /\ th[t].op = "rdt_monitor_cleanup" /\ th[t].pc = "read"
    /\ LET Ok(f, v) == [f EXCEPT !.pc = "write", !.value = v]
           Fail(f) == MonNextCpu(f, f.i + 1)
       IN ReadStep(t, th[t].cpu, MSR_IA32_PQR_ASSOC,
                   Ok(th[t], msr_read_cpu(th[t].cpu, MSR_IA32_PQR_ASSOC)),
                   Fail(th[t]))

\* rdt_monitor_cleanup: the write of rdt_monitor_set_rmid(cpu, 0), whose
\* result is ignored
rdt_monitor_cleanup_write(t) ==
    /\ th[t].op = "rdt_monitor_cleanup" /\ th[t].pc = "write"
    /\ LET Ok(f) == MonNextCpu([f EXCEPT !.wok = @ \cup {f.cpu}], f.i + 1)
           Fail(f) == MonNextCpu(f, f.i + 1)
       IN WriteStep(t, th[t].cpu, MSR_IA32_PQR_ASSOC,
                    SetRmidWord(th[t].value, 0), Ok(th[t]), Fail(th[t]))

(* ------------------------ rdt_monitor.c: main -------------------------- *)
EXIT_SUCCESS == 0
EXIT_FAILURE == 1

\* main after rdt_monitor_init has returned: EXIT_FAILURE when it failed or
\* the duration is not positive; else the handlers are registered and
\* rdt_monitor_continuous(duration) begins; sig is whether a signal is
\* handled before the loop is reached
rdt_monitor_main_start(t) ==
    /\ th[t].op = "rdt_monitor_init" /\ th[t].pc = "done"
    /\ \E duration \in MainDurationArgs, sig \in BOOLEAN :
        th' = [th EXCEPT ![t] =
                IF th[t].ret # SUCCESS \/ duration <= 0
                THEN [th[t] EXCEPT !.op = "main", !.ret = EXIT_FAILURE]
                ELSE [Frame("main_loop", "head", 0, duration)
                        EXCEPT !.mon = [NoMon EXCEPT
                            !.now = ClockStart,
                            !.start_time = ClockStart,
                            !.end_time = ClockStart + duration * 1000000,
                            !.running = ~sig]]]
    /\ UNCHANGED msr

\* rdt_monitor_continuous as main runs it, the values of the samples and
\* the rates not kept: a loop whose condition is
\* get_timestamp_us() < end_time alone
main_loop_head_NoFlag(t) ==
    /\ th[t].op = "main_loop" /\ th[t].pc = "head"
    /\ \E s1 \in ClockSteps, s2 \in ClockSteps :
        LET f == th[t]
            c1 == f.mon.now + s1
            c2 == c1 + s2
        IN th' = [th EXCEPT ![t] =
                    IF c1 >= f.mon.end_time
                    THEN Ret([f EXCEPT !.mon.now = c1], 0)
                    ELSE [f EXCEPT !.pc = "select", !.ev = 1,
                                   !.sel = EvtSel(0, 1),
                                   !.mon.now = c2,
                                   !.mon.it = @ + 1]]
    /\ UNCHANGED msr

\* the loop condition, running && get_timestamp_us() < end_time, and the
\* first statements of the body
main_loop_head(t) ==
    /\ th[t].op = "main_loop" /\ th[t].pc = "head"
    /\ \E s1 \in ClockSteps, s2 \in ClockSteps :
        LET f == th[t]
            c1 == f.mon.now + s1
            c2 == c1 + s2
        IN th' = [th EXCEPT ![t] =
                    IF ~f.mon.running \/ c1 >= f.mon.end_time
                    THEN Ret([f EXCEPT !.mon.now = c1], 0)
                    ELSE [f EXCEPT !.pc = "select", !.ev = 1,
                                   !.sel = EvtSel(0, 1),
                                   !.mon.now = c2,
                                   !.mon.it = @ + 1]]
    /\ UNCHANGED msr

\* the select write of the sampling function the body calls; a failure
\* leaves the loop
main_loop_select(t) ==
    /\ th[t].op = "main_loop" /\ th[t].pc = "select"
    /\ LET Ok(f) == [f EXCEPT !.pc = "counter"]
           Fail(f) == Ret(f, 0)
       IN WriteStep(t, 0, MSR_IA32_QM_EVTSEL, th[t].sel,
                    Ok(th[t]), Fail(th[t]))

\* the counter read of the sampling function the body calls, then the next
\* sampling function or the rest of the body; a failure leaves the loop
main_loop_counter(t) ==
    /\ th[t].op = "main_loop" /\ th[t].pc = "counter"
    /\ LET Ok(f) == IF f.ev < 3
                    THEN [f EXCEPT !.pc = "select", !.ev = f.ev + 1,
                                   !.sel = EvtSel(0, f.ev + 1)]
                    ELSE [f EXCEPT !.pc = "sleep"]
           Fail(f) == Ret(f, 0)
       IN ReadStep(t, 0, MSR_IA32_QM_CTR, Ok(th[t]), Fail(th[t]))

\* the rest of the body: the line printed, prev_data = curr_data and
\* sleep_ms(MONITORING_INTERVAL_MS)
main_loop_sleep(t) ==
    /\ th[t].op = "main_loop" /\ th[t].pc = "sleep"
    /\ th' = [th EXCEPT ![t] =
                [@ EXCEPT !.pc = "head",
                          !.mon.now = @ + MONITORING_INTERVAL_MS * 1000]]
    /\ UNCHANGED msr

\* signal_handler, delivered while main is in the loop: running = 0
main_signal_handler(t) ==
    /\ th[t].op = "main_loop" /\ th[t].pc # "done"
    /\ th[t].mon.running
    /\ th' = [th EXCEPT ![t].mon.running = FALSE]
    /\ UNCHANGED msr

\* main after rdt_monitor_continuous has returned: rdt_monitor_cleanup()
\* begins; the frame keeps the clock, the flag and the count of iterations
\* the loop ended with
rdt_monitor_main_cleanup(t) ==
    /\ th[t].op = "main_loop" /\ th[t].pc = "done"
    /\ th' = [th EXCEPT ![t] =
                MonNextCpu([Frame("rdt_monitor_cleanup", "read", 0, 0)
                                EXCEPT !.mon = th[t].mon], 0)]
    /\ UNCHANGED msr

\* main after rdt_monitor_cleanup has returned: return EXIT_SUCCESS
rdt_monitor_main_exit(t) ==
    /\ th[t].op = "rdt_monitor_cleanup" /\ th[t].pc = "done"
    /\ th' = [th EXCEPT ![t] =
                [th[t] EXCEPT !.op = "main", !.ret = EXIT_SUCCESS]]
    /\ UNCHANGED msr

(* ------------------- msr_read_cpu / msr_write_cpu ---------------------- *)
\* the errno open() can fail with on /dev/cpu/<cpu>/msr ("none": it
\* succeeds): no privilege, or no such device (module not loaded, or no
\* such CPU)
OpenErrnos(cpu) ==
    IF cpu \in CPUs THEN {"none", "EACCES", "ENOENT"} ELSE {"ENOENT"}

\* the errno lseek(), read() or write() can fail with on an open device:
\* the access is rejected
IoErrnos == {"none", "EIO"}

\* msr_open(cpu): a descriptor, or -1 when open() fails
msr_open(cpu, errno) == IF errno = "none" THEN 3 ELSE 0 - 1

\* msr_read(fd, msr, &value), value non-NULL: the result
msr_read(fd, errno) ==
    IF fd < 0 THEN ERROR_INVALID_PARAM
    ELSE IF errno # "none" THEN ERROR_SYSTEM
    ELSE SUCCESS

\* msr_write(fd, msr, value): the result
msr_write(fd, errno) ==
    IF fd < 0 THEN ERROR_INVALID_PARAM
    ELSE IF errno # "none" THEN ERROR_SYSTEM
    ELSE SUCCESS

\* msr_read_cpu(cpu, msr, &value) called directly
msr_read_cpu_call(t, cpu, reg) ==
    /\ CanCall(t)
    /\ th' = [th EXCEPT ![t] =
                [Frame("msr_read_cpu", "access", cpu, 0) EXCEPT !.reg = reg]]
    /\ UNCHANGED msr

\* msr_read_cpu: msr_open, msr_read, msr_close; err keeps the errno of the
\* call that failed
msr_read_cpu_access(t) ==
    /\ th[t].op = "msr_read_cpu" /\ th[t].pc = "access"
    /\ \E e1 \in OpenErrnos(th[t].cpu), e2 \in IoErrnos :
        LET f == th[t]
            fd == msr_open(f.cpu, e1)
            result == IF fd < 0 THEN ERROR_SYSTEM ELSE msr_read(fd, e2)
            g == [f EXCEPT !.err = IF fd < 0 THEN e1 ELSE e2,
                           !.outw = IF result = SUCCESS
                                    THEN msr_read_cpu(f.cpu, f.reg) ELSE @]
        IN th' = [th EXCEPT ![t] = Ret(g, result)]
    /\ UNCHANGED msr

\* msr_write_cpu(cpu, msr, value) called directly
msr_write_cpu_call(t, cpu, reg, value) ==
    /\ CanCall(t)
    /\ th' = [th EXCEPT ![t] =
                [Frame("msr_write_cpu", "access", cpu, 0)
                    EXCEPT !.reg = reg, !.m = value]]
    /\ UNCHANGED msr

\* msr_write_cpu: msr_open, msr_write, msr_close
msr_write_cpu_access(t) ==
    /\ th[t].op = "msr_write_cpu" /\ th[t].pc = "access"
    /\ \E e1 \in OpenErrnos(th[t].cpu), e2 \in IoErrnos :
        LET f == th[t]
            fd == msr_open(f.cpu, e1)
            result == IF fd < 0 THEN ERROR_SYSTEM ELSE msr_write(fd, e2)
        IN /\ th' = [th EXCEPT ![t] =
                        Ret([f EXCEPT !.err = IF fd < 0 THEN e1 ELSE e2],
                            result)]
           /\ msr' = IF result = SUCCESS
                     THEN msr_write_cpu(f.cpu, f.reg, f.m) ELSE msr

(* ------------------------- monitor_rdt_metrics ------------------------- *)
\* where monitor_rdt_metrics goes on after the sample of event ev: the
\* select of the next event, or the rates
MetricsNext(f) ==
    IF f.ev < 3
    THEN [f EXCEPT !.pc = "select", !.ev = f.ev + 1,
                   !.sel = EvtSel(0, f.ev + 1)]
    ELSE [f EXCEPT !.pc = "rate"]

\* monitor_rdt_metrics(duration): the locals before the loop; prev_timestamp
\* = start_time, prev_mbm_total = prev_mbm_local = 0
monitor_rdt_metrics_call(t, duration) ==
    /\ CanCall(t)
    /\ th' = [th EXCEPT ![t] =
                [Frame("monitor_rdt_metrics", "head", 0, duration)
                    EXCEPT !.mon = [NoMon EXCEPT
                        !.now = ClockStart,
                        !.start_time = ClockStart,
                        !.end_time = ClockStart + duration * 1000000,
                        !.prev_data.timestamp = ClockStart]]]
    /\ UNCHANGED msr

\* the loop condition, get_timestamp_us() < end_time, and the first
\* statements of the body: the three values zeroed, curr_timestamp
monitor_rdt_metrics_head(t) ==
    /\ th[t].op = "monitor_rdt_metrics" /\ th[t].pc = "head"
    /\ \E s1 \in ClockSteps, s2 \in ClockSteps :
        LET f == th[t]
            c1 == f.mon.now + s1
            c2 == c1 + s2
        IN th' = [th EXCEPT ![t] =
                    IF c1 >= f.mon.end_time
                    THEN Ret([f EXCEPT !.mon.now = c1], 0)
                    ELSE [f EXCEPT !.pc = "select", !.ev = 1,
                                   !.sel = EvtSel(0, 1),
                                   !.mon.now = c2,
                                   !.mon.it = @ + 1,
                                   !.mon.curr_data =
                                       [NoData EXCEPT !.timestamp = c2]]]
    /\ UNCHANGED msr

\* msr_write_cpu(0, MSR_IA32_QM_EVTSEL, evtsel); when it fails the value of
\* the event stays 0
monitor_rdt_metrics_select(t) ==
    /\ th[t].op = "monitor_rdt_metrics" /\ th[t].pc = "select"
    /\ LET Ok(f) == [f EXCEPT !.pc = "counter"]
           Fail(f) == MetricsNext(f)
       IN WriteStep(t, 0, MSR_IA32_QM_EVTSEL, th[t].sel,
                    Ok(th[t]), Fail(th[t]))

\* msr_read_cpu(0, MSR_IA32_QM_CTR, &value), the occupancy scaled by 64;
\* when it fails the value of the event stays 0
monitor_rdt_metrics_counter(t) ==
    /\ th[t].op = "monitor_rdt_metrics" /\ th[t].pc = "counter"
    /\ \E v \in qm_ctr(msr[0][MSR_IA32_QM_EVTSEL]) :
        LET Ok(f) == MetricsNext(
                        [f EXCEPT !.mon.curr_data = StoreSample(@, f.ev, v)])
            Fail(f) == MetricsNext(f)
        IN ReadStep(t, 0, MSR_IA32_QM_CTR, Ok(th[t]), Fail(th[t]))

\* the rates (0 unless time_diff > 0) and the line printed when
\* prev_timestamp > 0, then the previous values are replaced
monitor_rdt_metrics_rate(t) ==
    /\ th[t].op = "monitor_rdt_metrics" /\ th[t].pc = "rate"
    /\ LET f == th[t]
           prev == f.mon.prev_data
           curr == f.mon.curr_data
           time_diff == curr.timestamp - prev.timestamp
           line == [printed |-> TRUE, prev |-> prev, curr |-> curr,
                    mbm_total_rate |->
                        IF time_diff > 0
                        THEN MbmRate(curr.mbm_total, prev.mbm_total, time_diff)
                        ELSE ZERO64,
                    mbm_local_rate |->
                        IF time_diff > 0
                        THEN MbmRate(curr.mbm_local, prev.mbm_local, time_diff)
                        ELSE ZERO64]
       IN th' = [th EXCEPT ![t] =
                    [f EXCEPT !.pc = "sleep",
                              !.mon.report = IF prev.timestamp > 0
                                             THEN line ELSE NoReport,
                              !.mon.prev_data =
                                  [NoData EXCEPT
                                      !.mbm_total = curr.mbm_total,
                                      !.mbm_local = curr.mbm_local,
                                      !.timestamp = curr.timestamp]]]
    /\ UNCHANGED msr

\* sleep(1) at the end of the body
monitor_rdt_metrics_sleep(t) ==
    /\ th[t].op = "monitor_rdt_metrics" /\ th[t].pc = "sleep"
    /\ th' = [th EXCEPT ![t] =
                [@ EXCEPT !.pc = "head",
                          !.mon.now = @ + 1000000,
                          !.mon.report = NoReport]]
    /\ UNCHANGED msr

(* ---------------------- rdt_test_cache_allocation ---------------------- *)
\* uint64_t restricted_mask = 0x3FF
restricted_mask == << 1023, 0, 0, 0 >>

\* rdt_test_cache_allocation(): the test begins
rdt_test_cache_allocation_call(t) ==
    /\ CanCall(t)
    /\ th' = [th EXCEPT ![t] =
                [Frame("rdt_test_cache_allocation", "original", 0, 1)
                    EXCEPT !.reg = rdt_read_l3_mask_msr(1), !.n = NCPU]]
    /\ UNCHANGED msr

\* rdt_read_l3_mask(1, &original_mask); outw keeps original_mask
rdt_test_cache_allocation_original(t) ==
    /\ th[t].op = "rdt_test_cache_allocation" /\ th[t].pc = "original"
    /\ LET Ok(f, v) == [f EXCEPT !.pc = "restrict", !.outw = v, !.i = 0,
                                 !.m = restricted_mask]
           Fail(f) == Ret(f, ERROR_SYSTEM)
       IN ReadStep(t, 0, th[t].reg,
                   Ok(th[t], msr_read_cpu(0, th[t].reg)), Fail(th[t]))

\* rdt_write_l3_mask(1, restricted_mask): the write on CPU i; a failure
\* returns ERROR_SYSTEM from the test; wok keeps the CPUs written
rdt_test_cache_allocation_restrict(t) ==
    /\ th[t].op = "rdt_test_cache_allocation" /\ th[t].pc = "restrict"
    /\ LET Ok(f) == IF f.i + 1 < f.n
                    THEN [f EXCEPT !.i = @ + 1, !.wok = @ \cup {f.i}]
                    ELSE [f EXCEPT !.pc = "verify", !.wok = @ \cup {f.i}]
           Fail(f) == Ret(f, ERROR_SYSTEM)
       IN WriteStep(t, th[t].i, th[t].reg, th[t].m, Ok(th[t]), Fail(th[t]))

\* rdt_read_l3_mask(1, &read_mask) and the comparison with restricted_mask;
\* a failed read or a mismatch returns ERROR_SYSTEM
rdt_test_cache_allocation_verify(t) ==
    /\ th[t].op = "rdt_test_cache_allocation" /\ th[t].pc = "verify"
    /\ LET Ok(f, v) == IF v # restricted_mask
                       THEN Ret([f EXCEPT !.value = v], ERROR_SYSTEM)
                       ELSE [f EXCEPT !.pc = "restore", !.value = v,
                                      !.i = 0, !.m = f.outw]
           Fail(f) == Ret(f, ERROR_SYSTEM)
       IN ReadStep(t, 0, th[t].reg,
                   Ok(th[t], msr_read_cpu(0, th[t].reg)), Fail(th[t]))

\* rdt_write_l3_mask(1, original_mask): the write on CPU i; the pass ends at
\* its first failure, its result is not looked at and the test returns
\* SUCCESS
rdt_test_cache_allocation_restore(t) ==
    /\ th[t].op = "rdt_test_cache_allocation" /\ th[t].pc = "restore"
    /\ LET Ok(f) == IF f.i + 1 < f.n THEN [f EXCEPT !.i = @ + 1]
                    ELSE Ret(f, SUCCESS)
           Fail(f) == Ret(f, SUCCESS)
       IN WriteStep(t, th[t].i, th[t].reg, th[t].m, Ok(th[t]), Fail(th[t]))

(* ----------------------- rdt_bench.c: main ----------------------------- *)
\* benchmark_configs[]: l3_mask, mb_throttle and num_threads of the rows the
\* model runs, num_threads cut to MaxBenchThreads: "Baseline - No RDT
\* Control", "Memory Bandwidth Throttling - 50%" and "Cache Isolation - High
\* Priority"
benchmark_configs(i) ==
    LET cut(n) == IF n > MaxBenchThreads THEN MaxBenchThreads ELSE n
    IN IF i = 0
       THEN [l3_mask |-> << 65535, 0, 0, 0 >>, mb_throttle |-> ZERO64,
             num_threads |-> cut(4)]
       ELSE IF i = 1
       THEN [l3_mask |-> << 65535, 0, 0, 0 >>, mb_throttle |-> << 50, 0, 0, 0 >>,
             num_threads |-> cut(4)]
       ELSE [l3_mask |-> << 65280, 0, 0, 0 >>, mb_throttle |-> ZERO64,
             num_threads |-> cut(2)]

\* what sched_getcpu() returns to a benchmark thread: a failure or CPU 0
BenchCpus == {0 - 1, 0}

\* a benchmark thread that pthread_create has just started
NewThread == [pc |-> "start", cpu |-> 0, value |-> ZERO64]

\* the thread table with the entry of thread key replaced by rec
WithThread(threads, key, rec) ==
    [x \in DOMAIN threads \cup {key} |-> IF x = key THEN rec ELSE threads[x]]

\* the positions of main at which a configuration's threads are all created
\* and none is joined yet: the benchmark is running
InConfig == {"sleep", "stop"}

\* main of rdt_bench.c after rdt_bench_init and signal(), run without an
\* argument: the loop over all configurations begins
rdt_bench_main_call(t, feat) ==
    /\ CanCall(t)
    /\ th' = [th EXCEPT ![t] =
                [Frame("rdt_bench", "loop", 0, 0)
                    EXCEPT !.n = NumConfigs, !.mba = feat]]
    /\ UNCHANGED msr

\* main: the loop head, if (!g_running) break, and the call of
\* run_rdt_benchmark; after the loop main goes on to monitor_rdt_metrics(10)
\* and rdt_bench_cleanup
rdt_bench_main_loop(t) ==
    /\ th[t].op = "rdt_bench" /\ th[t].pc = "loop"
    /\ th' = [th EXCEPT ![t] =
                LET f == th[t]
                IN IF f.i >= f.n \/ f.bench.g_running = 0
                   THEN Ret(f, 0)
                   ELSE [f EXCEPT !.pc = "mask",
                            !.m = benchmark_configs(f.i).l3_mask,
                            !.thr = benchmark_configs(f.i).mb_throttle,
                            !.bench.started = @ \cup {f.i}]]
    /\ UNCHANGED msr

\* run_rdt_benchmark: setup_rdt_clos(1, ...), its write of the mask of
\* class 1; a failure returns from run_rdt_benchmark
run_rdt_benchmark_mask(t) ==
    /\ th[t].op = "rdt_bench" /\ th[t].pc = "mask"
    /\ LET Ok(f) == IF f.mba /\ f.thr # ZERO64
                    THEN [f EXCEPT !.pc = "throttle"]
                    ELSE [f EXCEPT !.pc = "data"]
           Fail(f) == [f EXCEPT !.pc = "wait"]
       IN WriteStep(t, 0, MSR_IA32_L3_MASK_0 + 1, th[t].m,
                    Ok(th[t]), Fail(th[t]))

\* run_rdt_benchmark: setup_rdt_clos(1, ...), its write of the throttle
run_rdt_benchmark_throttle(t) ==
    /\ th[t].op = "rdt_bench" /\ th[t].pc = "throttle"
    /\ LET Go(f) == [f EXCEPT !.pc = "data"]
       IN WriteStep(t, 0, MSR_IA32_MBA_THRTL_MSR + 1, th[t].thr,
                    Go(th[t]), Go(th[t]))

\* run_rdt_benchmark: the thread data is initialised; a failed malloc
\* returns
run_rdt_benchmark_data(t) ==
    /\ th[t].op = "rdt_bench" /\ th[t].pc = "data"
    /\ \E ok \in BOOLEAN :
        th' = [th EXCEPT ![t] =
                IF ok THEN [th[t] EXCEPT !.pc = "create", !.outi = 0]
                ELSE [th[t] EXCEPT !.pc = "wait"]]
    /\ UNCHANGED msr

\* run_rdt_benchmark: pthread_create of thread outi; a failure returns
\* without joining the threads already created
run_rdt_benchmark_create(t) ==
    /\ th[t].op = "rdt_bench" /\ th[t].pc = "create"
    /\ \E ok \in BOOLEAN :
        th' = [th EXCEPT ![t] =
                LET f == th[t]
                IN IF f.outi >= benchmark_configs(f.i).num_threads
                   THEN [f EXCEPT !.pc = "sleep"]
                   ELSE IF ok
                   THEN [f EXCEPT !.outi = @ + 1,
                            !.bench.threads =
                                WithThread(@, << f.i, f.outi >>, NewThread)]
                   ELSE [f EXCEPT !.pc = "wait"]]
    /\ UNCHANGED msr

\* run_rdt_benchmark: sleep(BENCHMARK_DURATION) returns, the time elapsed
\* or a signal handled
run_rdt_benchmark_sleep(t) ==
    /\ th[t].op = "rdt_bench" /\ th[t].pc = "sleep"
    /\ th' = [th EXCEPT ![t].pc = "stop"]
    /\ UNCHANGED msr

\* run_rdt_benchmark: g_running = 0
run_rdt_benchmark_stop(t) ==
    /\ th[t].op = "rdt_bench" /\ th[t].pc = "stop"
    /\ th' = [th EXCEPT ![t] =
                [th[t] EXCEPT !.pc = "join", !.outi = 0,
                              !.bench.g_running = 0]]
    /\ UNCHANGED msr

\* run_rdt_benchmark: pthread_join of thread outi, which waits until the
\* thread has returned
run_rdt_benchmark_join(t) ==
    /\ th[t].op = "rdt_bench" /\ th[t].pc = "join"
    /\ LET f == th[t]
           key == << f.i, f.outi >>
       IN IF f.outi >= benchmark_configs(f.i).num_threads
          THEN th' = [th EXCEPT ![t].pc = "reset"]
          ELSE /\ f.bench.threads[key].pc = "exited"
               /\ th' = [th EXCEPT ![t] =
                            [f EXCEPT !.outi = @ + 1,
                                !.bench.threads[key].pc = "joined"]]
    /\ UNCHANGED msr

\* run_rdt_benchmark: the results are printed, the data freed and
\* g_running = 1
run_rdt_benchmark_reset(t) ==
    /\ th[t].op = "rdt_bench" /\ th[t].pc = "reset"
    /\ th' = [th EXCEPT ![t] =
                [th[t] EXCEPT !.pc = "wait", !.bench.g_running = 1]]
    /\ UNCHANGED msr

\* main: run_rdt_benchmark has returned; sleep(5) before the next
\* configuration, and i++
rdt_bench_main_wait(t) ==
    /\ th[t].op = "rdt_bench" /\ th[t].pc = "wait"
    /\ th' = [th EXCEPT ![t] = [th[t] EXCEPT !.pc = "loop", !.i = @ + 1]]
    /\ UNCHANGED msr

\* benchmark_thread, assign_thread_to_clos: cpu = sched_getcpu()
benchmark_thread_getcpu(t, key) ==
    /\ th[t].op = "rdt_bench" /\ th[t].pc # "done"
    /\ key \in DOMAIN th[t].bench.threads
    /\ th[t].bench.threads[key].pc = "start"
    /\ \E cpu \in BenchCpus :
        th' = [th EXCEPT ![t].bench.threads[key] =
                IF cpu < 0 THEN [@ EXCEPT !.pc = "exited"]
                ELSE [@ EXCEPT !.pc = "read", !.cpu = cpu]]
    /\ UNCHANGED msr

\* benchmark_thread, assign_thread_to_clos: the read of the association word
benchmark_thread_read(t, key) ==
    /\ th[t].op = "rdt_bench" /\ th[t].pc # "done"
    /\ key \in DOMAIN th[t].bench.threads
    /\ th[t].bench.threads[key].pc = "read"
    /\ \E ok \in BOOLEAN :
        th' = [th EXCEPT ![t].bench.threads[key] =
                LET w == th[t].bench.threads[key]
                IN IF ok
                   THEN [w EXCEPT !.pc = "write",
                            !.value = msr_read_cpu(w.cpu, MSR_IA32_PQR_ASSOC)]
                   ELSE [w EXCEPT !.pc = "exited"]]
    /\ UNCHANGED msr

\* benchmark_thread, assign_thread_to_clos: the write of the composed word;
\* the thread then enters its benchmark loop
benchmark_thread_write(t, key) ==
    /\ th[t].op = "rdt_bench" /\ th[t].pc # "done"
    /\ key \in DOMAIN th[t].bench.threads
    /\ th[t].bench.threads[key].pc = "write"
    /\ LET w == th[t].bench.threads[key]
           value == AssignWord(w.value, 1)
       IN \E ok \in BOOLEAN :
            /\ msr' = IF ok THEN msr_write_cpu(w.cpu, MSR_IA32_PQR_ASSOC, value)
                      ELSE msr
            /\ th' = [th EXCEPT ![t].bench.threads[key] =
                        IF ok THEN [w EXCEPT !.pc = "loop", !.value = value]
                        ELSE [w EXCEPT !.pc = "exited", !.value = value]]

\* benchmark_thread: the benchmark loop, while (*running), finds the flag 0
\* and the thread returns
benchmark_thread_loop(t, key) ==
    /\ th[t].op = "rdt_bench" /\ th[t].pc # "done"
    /\ key \in DOMAIN th[t].bench.threads
    /\ th[t].bench.threads[key].pc = "loop"
    /\ th[t].bench.g_running = 0
    /\ th' = [th EXCEPT ![t].bench.threads[key].pc = "exited"]
    /\ UNCHANGED msr

\* signal_handler of rdt_bench.c: g_running = 0
rdt_bench_signal_handler(t) ==
    /\ th[t].op = "rdt_bench" /\ th[t].pc # "done"
    /\ th' = [th EXCEPT ![t] =
                [th[t] EXCEPT !.bench.g_running = 0,
                    !.bench.handled =
                        IF th[t].pc \in InConfig THEN @ \cup {th[t].i}
                        ELSE @]]
    /\ UNCHANGED msr

(* ------------------------------ callers -------------------------------- *)
\* the caller takes the result of a finished call
Return(t) ==
    /\ th[t].pc = "done"
    /\ th' = [th EXCEPT ![t] = Idle]
    /\ UNCHANGED msr

\* the caller takes the result of a finished call of op
ReturnOf(t, op) ==
    /\ th[t].op = op /\ th[t].pc = "done"
    /\ th' = [th EXCEPT ![t] = Idle]
    /\ UNCHANGED msr

(* ---------------------------- specification ---------------------------- *)
\* a single caller (thread 1) of the association-word functions of
\* msr_utils.c and rdt_monitor.c: calls do not overlap
Next ==
    \/ \E cpu \in CpuArgs, c \in ClosIdArgs : rdt_set_clos_call(1, cpu, c)
    \/ rdt_set_clos_read(1)
    \/ rdt_set_clos_write(1)
    \/ \E cpu \in CpuArgs : rdt_get_clos_call(1, cpu)
    \/ rdt_get_clos_read(1)
    \/ \E cpu \in CpuArgs, r \in RmidArgs : rdt_monitor_set_rmid_call(1, cpu, r)
    \/ rdt_monitor_set_rmid_read(1)
    \/ rdt_monitor_set_rmid_write(1)
    \/ \E cpu \in CpuArgs : rdt_monitor_get_rmid_call(1, cpu)
    \/ rdt_monitor_get_rmid_read(1)
    \/ Return(1)

Spec == Init /\ [][Next]_vars

\* a single caller (thread 1) of the benchmark's writers of the association
\* word, on CPUs whose class and monitoring ids rdt_set_clos and
\* rdt_monitor_set_rmid have set
NextBench ==
    \/ \E cpu \in CpuArgs, c \in {0, 1} : rdt_set_clos_call(1, cpu, c)
    \/ rdt_set_clos_read(1)
    \/ rdt_set_clos_write(1)
    \/ \E cpu \in CpuArgs, r \in RmidArgs : rdt_monitor_set_rmid_call(1, cpu, r)
    \/ rdt_monitor_set_rmid_read(1)
    \/ rdt_monitor_set_rmid_write(1)
    \/ \E cpu \in CpuArgs \cup {0 - 1}, c \in ClosIdArgs :
            assign_thread_to_clos_call(1, cpu, c)
    \/ assign_thread_to_clos_read(1)
    \/ assign_thread_to_clos_write(1)
    \/ \E feat \in BOOLEAN : rdt_bench_cleanup_call(1, feat)
    \/ rdt_bench_cleanup_read(1)
    \/ rdt_bench_cleanup_write(1)
    \/ rdt_bench_cleanup_mask(1)
    \/ rdt_bench_cleanup_throttle(1)
    \/ Return(1)

SpecBench == Init /\ [][NextBench]_vars

\* a single caller (thread 1) of the mask functions
NextMask ==
    \/ \E c \in MaskClosArgs : rdt_read_l3_mask_call(1, c)
    \/ rdt_read_l3_mask_read(1)
    \/ \E c \in MaskClosArgs, m \in MaskArgs : rdt_write_l3_mask_call(1, c, m)
    \/ rdt_write_l3_mask_write(1)
    \/ \E m \in MaskArgs, n \in {2, NCPU + 1} :
            msr_write_all_cpus_call(1, MSR_IA32_L3_MASK_0 + 1, m, n)
    \/ msr_write_all_cpus_write(1)
    \/ \E m \in MaskArgs, thr \in ThrottleArgs, feat \in BOOLEAN :
            setup_rdt_clos_call(1, 1, m, thr, feat)
    \/ setup_rdt_clos_mask(1)
    \/ setup_rdt_clos_throttle(1)
    \/ Return(1)

SpecMask == Init /\ [][NextMask]_vars

\* rdt_set_clos on thread 1 and rdt_monitor_set_rmid on thread 2, each called
\* once, their register accesses interleaved in every order
NextRace ==
    \/ \E cpu \in CpuArgs, c \in ClosIdArgs : rdt_set_clos_call(1, cpu, c)
    \/ rdt_set_clos_read(1)
    \/ rdt_set_clos_write(1)
    \/ \E cpu \in CpuArgs, r \in RmidArgs : rdt_monitor_set_rmid_call(2, cpu, r)
    \/ rdt_monitor_set_rmid_read(2)
    \/ rdt_monitor_set_rmid_write(2)

SpecRace == Init /\ [][NextRace]_vars

\* a single caller (thread 1) of the sampling functions and of the
\* monitoring loop
NextMon ==
    \/ \E r \in SampleRmidArgs : rdt_monitor_read_llc_occupancy_call(1, r)
    \/ \E r \in SampleRmidArgs : rdt_monitor_read_mbm_total_call(1, r)
    \/ \E r \in SampleRmidArgs : rdt_monitor_read_mbm_local_call(1, r)
    \/ rdt_monitor_read_select(1)
    \/ rdt_monitor_read_counter(1)
    \/ \E d \in DurationArgs : rdt_monitor_continuous_call(1, d)
    \/ rdt_monitor_continuous_head(1)
    \/ rdt_monitor_continuous_select(1)
    \/ rdt_monitor_continuous_counter(1)
    \/ rdt_monitor_continuous_rate(1)
    \/ rdt_monitor_continuous_sleep(1)
    \/ signal_handler(1)
    \/ Return(1)

SpecMon == Init /\ [][NextMon]_vars

\* two monitoring instances (threads 1 and 2), each calling one sampling
\* function once, their register accesses interleaved in every order
NextSample ==
    \/ \E t \in Threads, r \in SampleRmidArgs :
            rdt_monitor_read_llc_occupancy_call(t, r)
    \/ \E t \in Threads, r \in SampleRmidArgs :
            rdt_monitor_read_mbm_total_call(t, r)
    \/ \E t \in Threads, r \in SampleRmidArgs :
            rdt_monitor_read_mbm_local_call(t, r)
    \/ \E t \in Threads : rdt_monitor_read_select(t)
    \/ \E t \in Threads : rdt_monitor_read_counter(t)

SpecSample == Init /\ [][NextSample]_vars

\* a single caller (thread 1) of rdt_set_clos and of the switching test
NextSwitch ==
    \/ \E cpu \in CpuArgs, c \in {0 - 1, 0, 15} : rdt_set_clos_call(1, cpu, c)
    \/ rdt_set_clos_read(1)
    \/ rdt_set_clos_write(1)
    \/ rdt_test_dynamic_switching_call(1)
    \/ rdt_test_dynamic_switching_get_original(1)
    \/ rdt_test_dynamic_switching_set_read(1)
    \/ rdt_test_dynamic_switching_set_write(1)
    \/ rdt_test_dynamic_switching_verify(1)
    \/ rdt_test_dynamic_switching_loop_read(1)
    \/ rdt_test_dynamic_switching_loop_write(1)
    \/ rdt_test_dynamic_switching_restore_read(1)
    \/ rdt_test_dynamic_switching_restore_write(1)
    \/ Return(1)

SpecSwitch == Init /\ [][NextSwitch]_vars

\* rdt_write_l3_mask called once on each of two threads, their per-CPU
\* writes interleaved in every order
NextPass ==
    \/ \E t \in Threads, c \in {0, 1}, m \in PassMaskArgs :
            rdt_write_l3_mask_call(t, c, m)
    \/ \E t \in Threads : rdt_write_l3_mask_write(t)

SpecPass == Init /\ [][NextPass]_vars

\* a single caller (thread 1) of rdt_monitor_init and rdt_monitor_cleanup,
\* on CPUs whose class and monitoring ids rdt_set_clos and
\* rdt_monitor_set_rmid have set
NextInit ==
    \/ \E cpu \in CpuArgs : rdt_set_clos_call(1, cpu, 1)
    \/ rdt_set_clos_read(1)
    \/ rdt_set_clos_write(1)
    \/ \E cpu \in CpuArgs : rdt_monitor_set_rmid_call(1, cpu, 255)
    \/ rdt_monitor_set_rmid_read(1)
    \/ rdt_monitor_set_rmid_write(1)
    \/ \E feat \in BOOLEAN, avail \in BOOLEAN :
            rdt_monitor_init_call(1, feat, avail)
    \/ rdt_monitor_init_read(1)
    \/ rdt_monitor_init_write(1)
    \/ rdt_monitor_cleanup_call(1)
    \/ rdt_monitor_cleanup_read(1)
    \/ rdt_monitor_cleanup_write(1)
    \/ Return(1)

SpecInit == Init /\ [][NextInit]_vars

\* two callers of the register access layer, on CPUs that exist and on one
\* that does not
NextAccess ==
    \/ \E t \in Threads, cpu \in {0, NCPU} :
            msr_read_cpu_call(t, cpu, MSR_IA32_PQR_ASSOC)
    \/ \E t \in Threads : msr_read_cpu_access(t)
    \/ \E t \in Threads, cpu \in {0, NCPU}, m \in MaskArgs :
            msr_write_cpu_call(t, cpu, MSR_IA32_PQR_ASSOC, m)
    \/ \E t \in Threads : msr_write_cpu_access(t)
    \/ \E t \in Threads : Return(t)

SpecAccess == Init /\ [][NextAccess]_vars

\* a single caller (thread 1) of the benchmark's monitoring loop
NextMetrics ==
    \/ monitor_rdt_metrics_call(1, MetricsDuration)
    \/ monitor_rdt_metrics_head(1)
    \/ monitor_rdt_metrics_select(1)
    \/ monitor_rdt_metrics_counter(1)
    \/ monitor_rdt_metrics_rate(1)
    \/ monitor_rdt_metrics_sleep(1)
    \/ Return(1)

SpecMetrics == Init /\ [][NextMetrics]_vars

\* a single caller (thread 1) of rdt_read_l3_mask and rdt_write_l3_mask
\* with any int class id
NextAddr ==
    \/ \E c \in AddrClosArgs : rdt_read_l3_mask_call(1, c)
    \/ rdt_read_l3_mask_read(1)
    \/ \E c \in AddrClosArgs, m \in AddrMaskArgs : rdt_write_l3_mask_call(1, c, m)
    \/ rdt_write_l3_mask_write(1)
    \/ Return(1)

SpecAddr == Init /\ [][NextAddr]_vars

\* rdt_bench run over all configurations, its benchmark threads and the
\* signal handler
ThreadKeys == (0..(NumConfigs - 1)) \X (0..(MaxBenchThreads - 1))

NextRun ==
    \/ \E feat \in BOOLEAN : rdt_bench_main_call(1, feat)
    \/ rdt_bench_main_loop(1)
    \/ run_rdt_benchmark_mask(1)
    \/ run_rdt_benchmark_throttle(1)
    \/ run_rdt_benchmark_data(1)
    \/ run_rdt_benchmark_create(1)
    \/ run_rdt_benchmark_sleep(1)
    \/ run_rdt_benchmark_stop(1)
    \/ run_rdt_benchmark_join(1)
    \/ run_rdt_benchmark_reset(1)
    \/ rdt_bench_main_wait(1)
    \/ \E key \in ThreadKeys : benchmark_thread_getcpu(1, key)
    \/ \E key \in ThreadKeys : benchmark_thread_read(1, key)
    \/ \E key \in ThreadKeys : benchmark_thread_write(1, key)
    \/ \E key \in ThreadKeys : benchmark_thread_loop(1, key)
    \/ rdt_bench_signal_handler(1)
    \/ Return(1)

SpecRun == Init /\ [][NextRun]_vars

\* a single caller (thread 1) of rdt_test_cache_allocation, on masks of
\* class 1 that rdt_write_l3_mask has set
NextAlloc ==
    \/ \E m \in MaskArgs : rdt_write_l3_mask_call(1, 1, m)
    \/ rdt_write_l3_mask_write(1)
    \/ rdt_test_cache_allocation_call(1)
    \/ rdt_test_cache_allocation_original(1)
    \/ rdt_test_cache_allocation_restrict(1)
    \/ rdt_test_cache_allocation_verify(1)
    \/ rdt_test_cache_allocation_restore(1)
    \/ Return(1)

SpecAlloc == Init /\ [][NextAlloc]_vars

\* the steps of the process rdt_monitor once main has called
\* rdt_monitor_init
MainProgram ==
    \/ rdt_monitor_init_read(1)
    \/ rdt_monitor_init_write(1)
    \/ rdt_monitor_main_start(1)
    \/ main_loop_head(1)
    \/ main_loop_select(1)
    \/ main_loop_counter(1)
    \/ main_loop_sleep(1)
    \/ rdt_monitor_main_cleanup(1)
    \/ rdt_monitor_cleanup_read(1)
    \/ rdt_monitor_cleanup_write(1)
    \/ rdt_monitor_main_exit(1)

\* the process rdt_monitor, started on CPUs whose monitoring ids
\* rdt_monitor_set_rmid has set, and the signals delivered to it
NextMain ==
    \/ \E cpu \in CpuArgs : rdt_monitor_set_rmid_call(1, cpu, 255)
    \/ rdt_monitor_set_rmid_read(1)
    \/ rdt_monitor_set_rmid_write(1)
    \/ ReturnOf(1, "rdt_monitor_set_rmid")
    \/ \E feat \in BOOLEAN, avail \in BOOLEAN :
            rdt_monitor_init_call(1, feat, avail)
    \/ MainProgram
    \/ main_signal_handler(1)

\* the process is scheduled: a step of main that can be taken is taken
SpecMain == Init /\ [][NextMain]_vars /\ WF_vars(MainProgram)

(* ------------------------------ properties ----------------------------- *)
Assoc(cpu) == msr[cpu][MSR_IA32_PQR_ASSOC]
PreAssoc(f) == f.pre[f.cpu][MSR_IA32_PQR_ASSOC]
Finished(t, op) == th[t].op = op /\ th[t].pc = "done"
ValidClos == 0..(MAX_CLOS - 1)
ValidRmid == 0..(MAX_RMID - 1)

\* the call of frame f follows a successful call of op on the same CPU
Follows(f, op) ==
    f.prev.op = op /\ f.prev.ret = SUCCESS /\ f.prev.cpu = f.cpu

C3_NoLostUpdate ==
    LET f == th[1]
        g == th[2]
    IN (/\ Finished(1, "rdt_set_clos") /\ f.ret = SUCCESS /\ f.a \in ValidClos
        /\ Finished(2, "rdt_monitor_set_rmid") /\ g.ret = SUCCESS
        /\ g.a \in ValidRmid /\ f.cpu = g.cpu)
        => /\ Lo32(Assoc(f.cpu)) = << f.a, 0 >>
           /\ Hi32(Assoc(f.cpu)) = << g.a, 0 >>

\* C4: every writer uses the layout class id low / monitoring id high: after
\* a successful assign_thread_to_clos(c) rdt_get_clos gives c and the
\* monitoring id is the one from before the call; after rdt_bench_cleanup
\* every CPU it wrote has class id 0 and its monitoring id unchanged.
C4_OneLayout ==
    LET f == th[1]
    IN /\ (Finished(1, "assign_thread_to_clos") /\ f.ret = SUCCESS
            /\ f.a \in ValidClos)
            => /\ GetClosOfWord(Assoc(f.cpu)) = f.a
               /\ GetRmidOfWord(Assoc(f.cpu)) = GetRmidOfWord(PreAssoc(f))
       /\ Finished(1, "rdt_bench_cleanup")
            => \A cpu \in f.wok :
                /\ GetClosOfWord(Assoc(cpu)) = 0
                /\ GetRmidOfWord(Assoc(cpu))
                    = GetRmidOfWord(f.pre[cpu][MSR_IA32_PQR_ASSOC])

\* C5: when rdt_write_l3_mask(c, M) succeeds for c in [0, MAX_CLOS) and a
\* non-zero M, the rdt_read_l3_mask(c) that follows returns M.
C5_MaskRoundTrip ==
    LET f == th[1]
    IN (/\ Finished(1, "rdt_read_l3_mask") /\ f.ret = SUCCESS
        /\ f.prev.op = "rdt_write_l3_mask" /\ f.prev.ret = SUCCESS
        /\ f.prev.a = f.a /\ f.a \in ValidClos /\ f.prev.m # ZERO64)
        => f.outw = f.prev.m

\* rdt_read_l3_mask(1) has returned after rdt_write_l3_mask(1, 0x3FF)
\* succeeded, class 0 holding another mask
C5_Witness ==
    LET f == th[1]
    IN /\ Finished(1, "rdt_read_l3_mask") /\ f.ret = SUCCESS
       /\ f.prev.op = "rdt_write_l3_mask" /\ f.prev.ret = SUCCESS
       /\ f.prev.a = 1 /\ f.a = 1 /\ f.prev.m = << 1023, 0, 0, 0 >>
       /\ msr[0][MSR_IA32_L3_MASK_0] # f.prev.m

\* C6: the rdt_get_clos(cpu) that follows a successful rdt_set_clos(cpu, c),
\* c in [0, MAX_CLOS), returns c, whatever calls came before (last set wins).
C6_ClosRoundTrip ==
    LET f == th[1]
    IN (/\ Finished(1, "rdt_get_clos") /\ f.ret = SUCCESS
        /\ Follows(f, "rdt_set_clos") /\ f.prev.a \in ValidClos)
        => f.outi = f.prev.a

\* rdt_get_clos has returned 0 after rdt_set_clos(cpu, 0) succeeded on a CPU
\* that an earlier call had put in class 1
C6_Witness ==
    LET f == th[1]
    IN /\ Finished(1, "rdt_get_clos") /\ f.ret = SUCCESS
       /\ Follows(f, "rdt_set_clos") /\ f.prev.a = 0
       /\ Lo32(f.prev.assoc) = << 1, 0 >>
       /\ f.outi = 0

\* the CPUs on which a write of the call failed: attempted, not done
FailedCpus(f) == {x.cpu : x \in {y \in f.acc : y.kind = "w"}} \ f.wok

\* the first CPU whose write failed
FirstFailed(f) == CHOOSE k \in FailedCpus(f) : \A j \in FailedCpus(f) : k <= j

\* a batch write (rdt_write_l3_mask or msr_write_all_cpus) has returned
\* after a write of its loop failed
BatchFailed(f) ==
    /\ f.op \in {"rdt_write_l3_mask", "msr_write_all_cpus"}
    /\ f.pc = "done" /\ FailedCpus(f) # {}

\* C7: when the write to CPU k fails in msr_write_all_cpus or
\* rdt_write_l3_mask, the call returns an error, the CPUs below k hold the
\* new value, CPU k and the CPUs above hold their old value, and no write
\* was attempted above k.
C7_StopOnFirstFailure ==
    LET f == th[1]
        k == FirstFailed(f)
    IN BatchFailed(f)
        => /\ f.ret = ERROR_SYSTEM
           /\ \A cpu \in CPUs :
                /\ cpu < k => msr[cpu][f.reg] = f.m
                /\ cpu >= k => msr[cpu][f.reg] = f.pre[cpu][f.reg]
           /\ \A x \in f.acc : x.cpu <= k

\* a batch write of a value no CPU held has failed on CPU 1, with a CPU
\* below and a CPU above it
C7_Witness ==
    LET f == th[1]
    IN /\ BatchFailed(f) /\ FirstFailed(f) = 1 /\ f.n > 2
       /\ \A cpu \in CPUs : f.pre[cpu][f.reg] # f.m

\* C8: when a register write fails on domain k of a propagation pass, the
\* result returned to the caller is the number of domains already applied.
C8_ResultCarriesAppliedCount ==
    LET f == th[1]
    IN BatchFailed(f) => f.ret = Cardinality(f.wok)

\* C9: rdt_set_clos(cpu, id) with id outside [0, MAX_CLOS), negative ids
\* included, returns ERROR_INVALID_PARAM without any register access and
\* leaves the CPU's association word unchanged.
C9_InvalidClosRejected ==
    LET f == th[1]
    IN (f.op = "rdt_set_clos" /\ f.a \notin ValidClos)
        => /\ f.acc = {}
           /\ Assoc(f.cpu) = PreAssoc(f)
           /\ f.pc = "done" => f.ret = ERROR_INVALID_PARAM

\* C10: rdt_write_l3_mask(c, 0) and setup_rdt_clos(c, 0, T) return an error
\* and write no mask register on any CPU.
C10_ZeroMaskRejected ==
    LET f == th[1]
    IN (f.op \in {"rdt_write_l3_mask", "setup_rdt_clos"} /\ f.m = ZERO64)
        => /\ \A x \in f.acc : ~(x.kind = "w" /\ x.reg \in MaskRegs)
           /\ f.pc = "done" => f.ret # SUCCESS

\* the line the monitoring loop of thread 1 printed in this iteration
Report == th[1].mon.report

\* C11: rdt_monitor_continuous prints no rate in its first iteration; a rate
\* is printed only in a later iteration, from a previous sample with a
\* positive timestamp and with a positive time difference to it.
C11_FirstSampleNoRate ==
    LET f == th[1]
    IN (f.op = "rdt_monitor_continuous" /\ Report.printed)
        => /\ f.mon.it > 1
           /\ Report.prev.timestamp > 0
           /\ Report.curr.timestamp - Report.prev.timestamp > 0

\* the second iteration has printed a rate
C11_Witness ==
    LET f == th[1]
    IN /\ f.op = "rdt_monitor_continuous" /\ Report.printed
       /\ f.mon.it = 2
       /\ Report.mbm_total_rate # ZERO64

\* C12: when the raw value of a bandwidth counter is smaller than in the
\* previous sample, the monitor prints no rate derived from (current -
\* previous).
C12_WraparoundIsReset ==
    Report.printed
        => /\ ~Less64(Report.curr.mbm_total, Report.prev.mbm_total)
           /\ ~Less64(Report.curr.mbm_local, Report.prev.mbm_local)

\* the low 58 bits of a word: what a multiplication by 64 keeps
LOW_58 == << 65535, 65535, 65535, 1023 >>

C13_SampleOfOwnSelection ==
    \A t \in Threads :
        (th[t].op \in SampleOps /\ th[t].pc = "done" /\ th[t].ret = SUCCESS)
            => /\ th[t].value \in qm_ctr(th[t].sel)
               /\ th[t].outw = SampleValue(th[t].ev, th[t].value)

\* C14: SwitchCount back-to-back class-change requests on one CPU result in
\* fewer than SwitchCount hardware writes, and the class applied in the end
\* is the one requested last (when that request's write went through).
C14_RateLimited ==
    LET f == th[1]
    IN (f.op = "rdt_test_dynamic_switching" /\ f.i = SwitchCount)
        => /\ Cardinality(f.wok) < SwitchCount
           /\ (f.pc # "done" /\ (SwitchCount - 1) \in f.wok)
                => GetClosOfWord(Assoc(0)) = SwitchClos(SwitchCount - 1)

\* C15: when rdt_write_l3_mask(c, M1) and rdt_write_l3_mask(c, M2) run
\* concurrently and both return success, every CPU holds the same mask for
\* class c afterwards: all M1 or all M2.
C15_PassesDoNotInterleave ==
    LET f == th[1]
        g == th[2]
    IN (/\ Finished(1, "rdt_write_l3_mask") /\ f.ret = SUCCESS
        /\ Finished(2, "rdt_write_l3_mask") /\ g.ret = SUCCESS
        /\ f.a = g.a /\ f.a \in ValidClos)
        => \E m \in {f.m, g.m} : \A cpu \in CPUs : msr[cpu][f.reg] = m

\* C16: setup_rdt_clos(c, M, T) returns a non-success result whenever a
\* register write it attempted (mask or throttle) failed.
C16_NoFailureSwallowed ==
    LET f == th[1]
    IN (Finished(1, "setup_rdt_clos") /\ f.werr # {}) => f.ret # SUCCESS

\* C17: on hardware with bandwidth allocation, after setup_rdt_clos(c, M, T)
\* returned success (none of its writes having failed) the throttle
\* register of class c holds T, also for T = 0.
C17_ZeroThrottleApplied ==
    LET f == th[1]
    IN (Finished(1, "setup_rdt_clos") /\ f.ret = SUCCESS /\ f.mba
            /\ f.werr = {})
        => msr[0][MSR_IA32_MBA_THRTL_MSR + f.a] = f.thr

\* the CPUs a call accessed, and those on which an access of it failed
AccessedCpus(f) == {x.cpu : x \in f.acc}
FailedAccessCpus(f) == AccessedCpus(f) \ f.wok
NoRmid == << 0, 0 >>

\* C18: when rdt_monitor_init returns success every CPU's monitoring id is
\* 0; after rdt_monitor_cleanup every CPU whose accesses succeeded has
\* monitoring id 0; init stops at the first CPU that fails and returns an
\* error, cleanup attempts every CPU whatever failed before; neither changes
\* a CPU's class id.
C18_RmidLifecycle ==
    LET f == th[1]
    IN /\ (Finished(1, "rdt_monitor_init") /\ f.ret = SUCCESS)
            => \A cpu \in CPUs : Hi32(Assoc(cpu)) = NoRmid
       /\ (Finished(1, "rdt_monitor_init") /\ FailedAccessCpus(f) # {})
            => /\ f.ret = ERROR_SYSTEM
               /\ \A k \in FailedAccessCpus(f) :
                    /\ \A cpu \in AccessedCpus(f) : cpu <= k
                    /\ \A cpu \in CPUs :
                        cpu >= k => Assoc(cpu) = f.pre[cpu][MSR_IA32_PQR_ASSOC]
       /\ Finished(1, "rdt_monitor_cleanup")
            => /\ AccessedCpus(f) = CPUs
               /\ \A cpu \in f.wok : Hi32(Assoc(cpu)) = NoRmid
       /\ f.op \in {"rdt_monitor_init", "rdt_monitor_cleanup"}
            => \A cpu \in CPUs :
                Lo32(Assoc(cpu)) = Lo32(f.pre[cpu][MSR_IA32_PQR_ASSOC])

\* rdt_monitor_cleanup has finished after an access to CPU 0, of monitoring
\* id 255, failed; it has gone on to CPU 1, of class 1 and monitoring id 255
C18_Witness ==
    LET f == th[1]
    IN /\ Finished(1, "rdt_monitor_cleanup")
       /\ 0 \notin f.wok /\ 1 \in f.wok
       /\ f.pre[1][MSR_IA32_PQR_ASSOC] = << 1, 0, 255, 0 >>
       /\ Hi32(Assoc(0)) = << 255, 0 >>

\* a call of the register access layer has failed with errno e
AccessFailed(f, e) ==
    f.op \in {"msr_read_cpu", "msr_write_cpu"} /\ f.pc = "done" /\ f.err = e

\* C20: msr_read_cpu and msr_write_cpu return different results for missing
\* privilege (EACCES), a device that does not exist (ENOENT) and a rejected
\* access (EIO).
C20_FailureKindsDistinct ==
    \A e1, e2 \in {"EACCES", "ENOENT", "EIO"} :
        (e1 # e2 /\ AccessFailed(th[1], e1) /\ AccessFailed(th[2], e2))
            => th[1].ret # th[2].ret

\* C21: a successful rdt_write_l3_mask(c, M) with c in [0, MAX_CLOS) sets
\* the mask register of class c to M on every CPU and changes no other
\* register: the masks of the other classes, the throttle registers and the
\* association word are as before the call.
C21_MaskWriteFrame ==
    LET f == th[1]
    IN (Finished(1, "rdt_write_l3_mask") /\ f.ret = SUCCESS
            /\ f.a \in ValidClos)
        => \A cpu \in CPUs, r \in Regs :
            msr[cpu][r] = IF r = MSR_IA32_L3_MASK_0 + f.a THEN f.m
                          ELSE f.pre[cpu][r]

\* rdt_write_l3_mask(0, 0x3FF) has succeeded while class 1 held the mask 0
\* and the throttle 50
C21_Witness ==
    LET f == th[1]
    IN /\ Finished(1, "rdt_write_l3_mask") /\ f.ret = SUCCESS
       /\ f.a = 0 /\ f.m = << 1023, 0, 0, 0 >>
       /\ f.pre[0][MSR_IA32_L3_MASK_0] = DefaultMask
       /\ msr[0][MSR_IA32_L3_MASK_0 + 1] = ZERO64
       /\ msr[0][MSR_IA32_MBA_THRTL_MSR + 1] = << 50, 0, 0, 0 >>

\* a pass of a batch writer is between two of its per-CPU writes
InPass(f) ==
    f.op \in {"rdt_write_l3_mask", "msr_write_all_cpus"} /\ f.pc = "write"

\* C22: within one pass of rdt_write_l3_mask or msr_write_all_cpus the CPUs
\* are written in ascending order, each at most once, and at every
\* intermediate point the CPUs holding the new value are a prefix 0..j-1:
\* with k writes attempted so far, those were to CPUs 0..k-1, these hold the
\* new value and the others their old one, and the next step of the pass
\* writes CPU k and touches no other CPU.
C22_AscendingOncePrefix ==
    [][LET f == th[1]
           k == Cardinality(f.acc)
       IN InPass(f)
            => /\ f.acc = {Acc("w", cpu, f.reg) : cpu \in 0..(k - 1)}
               /\ \A cpu \in CPUs :
                    msr[cpu][f.reg] = IF cpu < k THEN f.m
                                      ELSE f.pre[cpu][f.reg]
               /\ th'[1].acc = f.acc \cup {Acc("w", k, f.reg)}
               /\ \A cpu \in CPUs \ {k} : msr'[cpu] = msr[cpu]]_vars

\* a pass of msr_write_all_cpus has written CPUs 0 and 1, which held another
\* value, and is about to write CPU 2
C22_Witness ==
    LET f == th[1]
    IN /\ InPass(f) /\ f.op = "msr_write_all_cpus" /\ f.i = 2
       /\ msr[1][f.reg] = f.m
       /\ \A cpu \in CPUs : f.pre[cpu][f.reg] # f.m

\* x * k for a number x given as 16-bit limbs, least significant first: the
\* full product, one limb longer
RECURSIVE MulLimbs(_, _, _)
MulLimbs(x, k, carry) ==
    IF x = << >> THEN << carry >>
    ELSE LET p == Head(x) * k + carry
         IN << p % LIMB >> \o MulLimbs(Tail(x), k, p \div LIMB)

\* the bytes of such a number, most significant first
RECURSIVE BytesOf(_)
BytesOf(x) ==
    IF x = << >> THEN << >>
    ELSE BytesOf(Tail(x)) \o << Head(x) \div 256, Head(x) % 256 >>

\* floor((v2 - v1) * 1000000 / dt) for v2 >= v1, computed without wrapping,
\* as twelve bytes
ExactRate(v2, v1, dt) ==
    DivDigits(BytesOf(MulLimbs(MulLimbs(Sub64(v2, v1), 1000, 0), 1000, 0)),
              dt, 0)

\* a 64-bit rate as twelve bytes
RateBytes(r) == << 0, 0, 0, 0 >> \o BytesOf(r)

\* C23: for two consecutive samples with raw values v2 >= v1 and timestamps
\* t2 > t1 the rate rdt_monitor_continuous computes is
\* floor((v2 - v1) * 1000000 / (t2 - t1)), the product not wrapping; and no
\* rate is computed for t2 = t1.
C23_RateIsExact ==
    LET p == Report.prev
        c == Report.curr
        dt == c.timestamp - p.timestamp
    IN Report.printed
        => /\ dt # 0
           /\ ~Less64(c.mbm_total, p.mbm_total)
                => RateBytes(Report.mbm_total_rate)
                    = ExactRate(c.mbm_total, p.mbm_total, dt)
           /\ ~Less64(c.mbm_local, p.mbm_local)
                => RateBytes(Report.mbm_local_rate)
                    = ExactRate(c.mbm_local, p.mbm_local, dt)

\* C24: monitor_rdt_metrics prints no bandwidth rate in the iteration that
\* takes its first counter sample: a line printed after a bandwidth counter
\* was read belongs to a later iteration.
C24_BenchFirstSampleNoRate ==
    LET f == th[1]
    IN (/\ f.op = "monitor_rdt_metrics" /\ Report.printed
        /\ Report.curr.mbm_total # ZERO64)
        => f.mon.it > 1

\* the event id a sampling function selects
EventId(op) ==
    IF op = "rdt_monitor_read_llc_occupancy" THEN 1
    ELSE IF op = "rdt_monitor_read_mbm_total" THEN 2
    ELSE 3

SelectAccess == Acc("w", 0, MSR_IA32_QM_EVTSEL)
CounterAccess == Acc("r", 0, MSR_IA32_QM_CTR)

\* C25: a sampling function called with rmid in [0, MAX_RMID) writes the
\* select word rmid | (event_id << 32), event_id 1, 2 or 3, and reads the
\* counter only after that write succeeded; when the select write fails it
\* does not read the counter, returns an error and leaves the output as it
\* was.
C25_SelectThenRead ==
    LET f == th[1]
    IN (f.op \in SampleOps /\ f.a \in ValidRmid)
        => /\ f.sel = << f.a, 0, EventId(f.op), 0 >>
           /\ f.acc \subseteq {SelectAccess, CounterAccess}
           /\ (f.pc = "counter" \/ CounterAccess \in f.acc)
                => /\ SelectAccess \in f.acc /\ 0 \in f.wok
                   /\ msr[0][MSR_IA32_QM_EVTSEL] = f.sel
           /\ (f.pc = "done" /\ 0 \notin f.wok)
                => /\ CounterAccess \notin f.acc
                   /\ f.ret = ERROR_SYSTEM
                   /\ f.outw = ZERO64

\* rdt_monitor_read_mbm_total(255) has returned after its select write
\* failed, the select register holding another selection
C25_Witness ==
    LET f == th[1]
    IN /\ f.op = "rdt_monitor_read_mbm_total" /\ f.a = 255 /\ f.pc = "done"
       /\ SelectAccess \in f.acc /\ 0 \notin f.wok
       /\ msr[0][MSR_IA32_QM_EVTSEL] = << 0, 0, 1, 0 >>

\* C26: whatever int class id rdt_read_l3_mask or rdt_write_l3_mask is
\* called with, every register it reads or writes is one of the mask
\* registers 0xC90 .. 0xC90 + MAX_CLOS - 1, and the event-select, counter
\* and association registers keep the words they had before the call
C26_MaskAddressSafe ==
    LET f == th[1]
    IN f.op \in {"rdt_read_l3_mask", "rdt_write_l3_mask"}
        => /\ \A x \in f.acc : x.reg \in MaskRegs
           /\ \A cpu \in CPUs :
                \A r \in {MSR_IA32_QM_EVTSEL, MSR_IA32_QM_CTR,
                           MSR_IA32_PQR_ASSOC} :
                    msr[cpu][r] = f.pre[cpu][r]

\* the word a setter composes from the word it read
SetterWord(f) ==
    IF f.op = "rdt_set_clos" THEN SetClosWord(PreAssoc(f), f.a)
    ELSE SetRmidWord(PreAssoc(f), f.a)

\* C27: when its read of the association word fails, rdt_set_clos or
\* rdt_monitor_set_rmid returns ERROR_SYSTEM without issuing a write and
\* the CPU's word is as before; a write is issued only after a successful
\* read, with the word composed from the word read
C27_NoWriteAfterFailedRead ==
    LET f == th[1]
        r == Acc("r", f.cpu, MSR_IA32_PQR_ASSOC)
        w == Acc("w", f.cpu, MSR_IA32_PQR_ASSOC)
    IN f.op \in {"rdt_set_clos", "rdt_monitor_set_rmid"}
        => /\ r \in f.werr
                => /\ f.pc = "done" /\ f.ret = ERROR_SYSTEM
                   /\ w \notin f.acc
                   /\ Assoc(f.cpu) = PreAssoc(f)
           /\ (w \in f.acc \/ f.pc = "write")
                => /\ r \in f.acc /\ r \notin f.werr
                   /\ f.value = IF f.pc = "write" THEN PreAssoc(f)
                                 ELSE SetterWord(f)
           /\ w \in f.acc
                => Assoc(f.cpu) \in {PreAssoc(f), SetterWord(f)}

\* rdt_set_clos has returned after its read failed, on a CPU whose word
\* holds a class id and a monitoring id
C27_Witness ==
    LET f == th[1]
    IN /\ Finished(1, "rdt_set_clos")
       /\ Acc("r", f.cpu, MSR_IA32_PQR_ASSOC) \in f.werr
       /\ f.a = 0
       /\ GetClosOfWord(Assoc(f.cpu)) = 15
       /\ GetRmidOfWord(Assoc(f.cpu)) = 255

\* C28: once a signal has been handled while configuration i of rdt_bench
\* was running, run_rdt_benchmark does not return to main before every thread
\* of configuration i has been joined, and no configuration after i is
\* started
C28_StopIsFinal ==
    LET f == th[1]
    IN f.op = "rdt_bench"
        => \A i \in f.bench.handled :
            /\ \A j \in f.bench.started : j <= i
            /\ (f.i = i /\ f.pc = "reset")
                => \A key \in DOMAIN f.bench.threads :
                    key[1] = i => f.bench.threads[key].pc = "joined"

\* C29: whenever rdt_test_cache_allocation returns after it has written the
\* restricted mask 0x3FF to class 1 on some CPU, the mask register of
\* class 1 holds on every CPU the original value the test read at its start
C29_TestRestoresMask ==
    LET f == th[1]
    IN (Finished(1, "rdt_test_cache_allocation") /\ f.wok # {})
        => \A cpu \in CPUs : msr[cpu][MSR_IA32_L3_MASK_0 + 1] = f.outw

LoopStarted == th[1].op = "main_loop"
MainExited == th[1].op = "main" /\ th[1].pc = "done"

\* C30: in rdt_monitor, after rdt_monitor_init has succeeded, no iteration
\* of the monitoring loop begins once running is 0; when the loop has ended
\* main goes on with rdt_monitor_cleanup and returns EXIT_SUCCESS only after
\* cleanup has gone through all CPUs, every monitoring id being 0; and a
\* loop that was started is followed by the exit of main
C30_CleanShutdown ==
    /\ [][LET f == th[1]
              g == th'[1]
          IN /\ (LoopStarted /\ ~f.mon.running /\ g.op = f.op)
                    => g.mon.it = f.mon.it
             /\ (LoopStarted /\ f.pc = "done")
                    => g.op = "rdt_monitor_cleanup"
             /\ (g.op = "main" /\ g.ret = EXIT_SUCCESS)
                    => /\ f.op = "rdt_monitor_cleanup" /\ f.i = NCPU
                       /\ \A cpu \in CPUs :
                            GetRmidOfWord(msr'[cpu][MSR_IA32_PQR_ASSOC]) = 0]_vars
    /\ (LoopStarted ~> MainExited)

\* main has returned EXIT_SUCCESS after a signal ended a loop that had run
\* two iterations and whose duration had not elapsed
C30_Witness ==
    LET f == th[1]
    IN /\ MainExited /\ f.ret = EXIT_SUCCESS
       /\ ~f.mon.running /\ f.mon.it = 2
       /\ f.mon.now < f.mon.end_time

====
